---- MODULE Spec2Model ----
(***************************************************************************)
(* State-machine model of src/src/ResourceAllocationAgent.ts: the resource *)
(* arbitration core of the ResourceAllocationAgent (request / return with  *)
(* waitlist promotion, notification queues, the reminder and utilization   *)
(* sweep).                                                                 *)
(*                                                                         *)
(* Execution model.  The agent runs on one JavaScript event loop: a        *)
(* handler runs without interruption up to its next `await`, where other   *)
(* handlers may run.  The only awaits in the arbitration core are the      *)
(* awaits of notifyViaMcp (lines 265, 313, 571).  Every action below is    *)
(* one such uninterrupted run: from the call of a handler to its first     *)
(* await or its return, or from the resumption after an await to the next  *)
(* await or the return.  A handler suspended at an await is an element of  *)
(* `pending`, holding the handler's local variables.                       *)
(*                                                                         *)
(* handleChat awaits the method it calls (lines 416, 431, 445, 463, 480)   *)
(* and this.env.AI.run (line 513).  An await of a promise that is          *)
(* fulfilled already does no I/O: the handler goes on from the microtask   *)
(* queue, in the order in which the handlers were suspended, before any    *)
(* timer, I/O completion or scheduled callback runs; only calls of         *)
(* handlers made in the same turn run in between.  These are the await of  *)
(* handleChat on a method that has returned and the await of a             *)
(* notifyViaMcp that returned without reaching this.mcp.callTool (no       *)
(* server listed, line 177, or no connection ready, line 186).             *)
(*                                                                         *)
(* Agent.setState (agents SDK) assigns this.state synchronously, so a      *)
(* read of this.state after setState sees the written document.            *)
(*                                                                         *)
(* Time is counted in hours since the epoch of the model, 2026-01-01T00:00Z.*)
(* A timestamp the program makes (new Date().toISOString()) is modelled by *)
(* its hour count, and its calendar date (toISOString().slice(0, 10)) by   *)
(* the hour count divided by 24.  A dueReturnAt is a string of the caller, *)
(* stored as it is given: it is modelled by the string, with its time      *)
(* value (new Date(s).getTime()) and its first ten characters tabulated.   *)
(***************************************************************************)
EXTENDS Integers, Sequences, FiniteSets, TLC

VARIABLES
    resources,       \* this.state.resources
    assignments,     \* this.state.assignments
    waitlist,        \* this.state.waitlist
    utilizationLog,  \* this.state.utilizationLog
    notifications,   \* this.state.notifications (an absent key is <<>>)
    clock,           \* Date.now(), in hours
    nextId,          \* the next value generateId() returns
    pending,         \* the handlers suspended at an await
    budget,          \* the bounds of the run: calls of generateId, suspended
                     \* handlers, the clock, calls of handleChat left; and
                     \* whether lastNotify is recorded
    enqueued,        \* history: the waitlist entries requestResource created
    promoted,        \* history: the ids of the entries a returnResource promoted
    swept,           \* history: the dates on which a checkReturnReminders wrote
    lastNotify,      \* history: how the last awaited notifyViaMcp went
    conversationByUser,  \* this.state.conversationByUser
    lastResult       \* the value returned by the last requestResource,
                     \* returnResource or handleChat that returned

vars == <<resources, assignments, waitlist, utilizationLog, notifications,
          clock, nextId, pending, budget, enqueued, promoted, lastResult,
          swept, lastNotify, conversationByUser>>

----------------------------------------------------------------------------
\* Bounds of the model.

\* generateId() is called at most MaxIds times.
MaxIds == 4

\* The clock stops at MaxClock hours.
MaxClock == 12

\* At most MaxPending handlers are suspended at an await at a time.
MaxPending == 2

\* checkReturnReminders is not started once a user has MaxNotifs messages.
MaxNotifs == 2

\* generateId() is called at most MaxIdsP1 times in the runs on P1 alone.
MaxIdsP1 == 6

\* generateId() is called at most MaxIdsDue times in the runs with due dates.
MaxIdsDue == 3

\* At most MaxPendingDue handlers are suspended at a time in those runs.
MaxPendingDue == 1

\* generateId() is called at most MaxIdsClear times in the runs on P1 with
\* clearNotifications.
MaxIdsClear == 5

\* generateId() is called at most MaxIdsLive times in the runs on P1 under
\* fairness.
MaxIdsLive == 4

\* generateId() is called at most MaxIdsFrame times, and at most
\* MaxPendingFrame handlers are suspended at a time, in the runs with
\* clearNotifications and the sweep.
MaxIdsFrame == 4
MaxPendingFrame == 1

\* generateId() is called at most MaxIdsList times in the runs with
\* listResources.
MaxIdsList == 5

\* handleChat is called at most MaxChats times, and generateId() at most
\* MaxIdsChat times in the runs with handleChat.
MaxChats == 3
MaxIdsChat == 3

\* The utilization logs getUtilization is applied to have at most MaxLogLen
\* entries, of the dates 0..MaxLogDate.
MaxLogLen == 2
MaxLogDate == 2

----------------------------------------------------------------------------
\* Constants of the program.

REMINDER_HOURS_AHEAD == 24
CONVERSATION_CAP_PER_USER == 20

\* dueReturnAt?: string, when it is omitted (undefined).
NoDue == "(undefined)"

\* A dueReturnAt string that is not a date: new Date(dueReturnAt) is an
\* Invalid Date, whose time value is NaN.
InvalidDue == "soon"

\* The time value NaN.
NaN == -1

\* new Date(due).getTime(), in hours, of the dueReturnAt strings callers give.
getTime(due) ==
    CASE due = "2026-01-01T06:00:00.000Z" -> 6
      [] due = "2026-01-02T12:00:00.000Z" -> 36
      [] due = "2026-01-01T23:00:00-05:00" -> 28
      [] due = "2026-01-02T01:00:00+05:00" -> 20
      [] due = "Fri, 02 Jan 2026 06:00:00 GMT" -> 30
      [] OTHER -> NaN

DEFAULT_RESOURCES ==
    << [id |-> "P1", type |-> "parking",   name |-> "Parking Spot 1", quantity |-> 1],
       [id |-> "P2", type |-> "parking",   name |-> "Parking Spot 2", quantity |-> 1],
       [id |-> "L1", type |-> "license",   name |-> "Adobe CC",       quantity |-> 5],
       [id |-> "E1", type |-> "equipment", name |-> "Projector",      quantity |-> 2] >>

initialState ==
    [resources |-> <<>>, assignments |-> <<>>, waitlist |-> <<>>,
     utilizationLog |-> <<>>, notifications |-> [u \in {} |-> <<>>],
     conversationByUser |-> [u \in {} |-> <<>>]]

\* The inputs of the handlers.
Users == {"alice", "bob"}
ResourceIdInputs == {"P1", "E1", "X"}
DueInputs == {NoDue}

\* The value of an optional that is absent.
NoUser == ""
NoResource == [id |-> "", type |-> "", name |-> "", quantity |-> 0]
NoEntry == [id |-> 0, resourceId |-> "", userId |-> NoUser, requestedAt |-> 0]
NoResult == [op |-> "none"]
NoNotify == "none yet"

----------------------------------------------------------------------------
\* Helpers.

\* The whole document this.state.
State ==
    [resources |-> resources, assignments |-> assignments, waitlist |-> waitlist,
     utilizationLog |-> utilizationLog, notifications |-> notifications,
     conversationByUser |-> conversationByUser]

\* new Date().toISOString().slice(0, 10) at hour t.
todayDateString(t) == t \div 24

\* seedResourcesIfEmpty: a catalog that is empty is filled with the defaults.
seedResourcesIfEmpty(state) ==
    IF Len(state.resources) > 0 THEN state
    ELSE [state EXCEPT !.resources = DEFAULT_RESOURCES]

\* Mutant of FindFrom: a resource that is not found is taken to be the first.
RECURSIVE FindFromOrFirst(_, _, _)
FindFromOrFirst(res, resourceId, i) ==
    IF i > Len(res) THEN res[1]
    ELSE IF res[i].id = resourceId THEN res[i]
    ELSE FindFromOrFirst(res, resourceId, i + 1)

\* this.state.resources.find((r) => r.id === resourceId)
RECURSIVE FindFrom(_, _, _)
FindFrom(res, resourceId, i) ==
    IF i > Len(res) THEN NoResource
    ELSE IF res[i].id = resourceId THEN res[i]
    ELSE FindFrom(res, resourceId, i + 1)

FindResource(res, resourceId) == FindFrom(res, resourceId, 1)

\* Mutant of activeAssignmentCount: returned assignments are counted too.
AllAssignmentCount(assigns, resourceId) ==
    Cardinality({i \in DOMAIN assigns : assigns[i].resourceId = resourceId})

activeAssignmentCount(assigns, resourceId) ==
    Cardinality({i \in DOMAIN assigns :
                    assigns[i].resourceId = resourceId /\ assigns[i].status = "active"})

\* Array.prototype.sort with the comparator a.requestedAt - b.requestedAt:
\* a stable sort, computed by insertion.
RECURSIVE InsertByRequestedAt(_, _)
InsertByRequestedAt(sorted, w) ==
    IF sorted = <<>> THEN <<w>>
    ELSE IF Head(sorted).requestedAt <= w.requestedAt
         THEN <<Head(sorted)>> \o InsertByRequestedAt(Tail(sorted), w)
         ELSE <<w>> \o sorted

RECURSIVE SortByRequestedAt(_)
SortByRequestedAt(ws) ==
    IF ws = <<>> THEN <<>>
    ELSE InsertByRequestedAt(SortByRequestedAt(SubSeq(ws, 1, Len(ws) - 1)), ws[Len(ws)])

ForResource(wl, resourceId) ==
    LET Is(w) == w.resourceId = resourceId IN SelectSeq(wl, Is)

\* Mutant of getNextWaitlistEntry: the filter matches no entry.
NoNextWaitlistEntry(wl, resourceId) == NoEntry

\* Mutant of getNextWaitlistEntry: the last of the sorted entries is taken.
LastWaitlistEntry(wl, resourceId) ==
    LET sorted == SortByRequestedAt(ForResource(wl, resourceId))
    IN  IF sorted = <<>> THEN NoEntry ELSE sorted[Len(sorted)]

getNextWaitlistEntry(wl, resourceId) ==
    LET sorted == SortByRequestedAt(ForResource(wl, resourceId))
    IN  IF sorted = <<>> THEN NoEntry ELSE sorted[1]

\* notifications[userId] ?? []
NotificationsOf(notifs, userId) ==
    IF userId \in DOMAIN notifs THEN notifs[userId] ELSE <<>>

appendNotification(notifs, userId, message) ==
    [u \in DOMAIN notifs \cup {userId} |->
        IF u = userId THEN Append(NotificationsOf(notifs, userId), message)
        ELSE notifs[u]]

\* The messages of the program.
AssignedMessage(resource) == <<"is now assigned to you", resource.name>>
\* a.dueReturnAt.slice(0, 10): the first ten characters of the string as the
\* caller gave it, whatever its time zone or its form.
DateSlice(due) ==
    CASE due = "2026-01-01T06:00:00.000Z" -> "2026-01-01"
      [] due = "2026-01-02T12:00:00.000Z" -> "2026-01-02"
      [] due = "2026-01-01T23:00:00-05:00" -> "2026-01-01"
      [] due = "2026-01-02T01:00:00+05:00" -> "2026-01-02"
      [] due = "Fri, 02 Jan 2026 06:00:00 GMT" -> "Fri, 02 Ja"
      [] OTHER -> due

ReminderMessage(name, due) == <<"Reminder: Please return", name, DateSlice(due)>>

----------------------------------------------------------------------------
\* notifyViaMcp (lines 171-198).

\* The servers of MCP_NOTIFY_CONFIG, in its order (lines 83-90).
MCP_NOTIFY_CONFIG == <<"slack", "email">>

\* preferServerId?: string, when it is omitted.
NoPrefer == ""

\* What a call of notifyViaMcp meets: whether this.mcp.listServers() lists a
\* server and, for each server of the configuration, whether its connection
\* is ready and whether this.mcp.callTool then delivers or throws.
ConnStates == {"notReady", "delivers", "throws"}

NotifyEnvs ==
    {[servers |-> FALSE, slack |-> "notReady", email |-> "notReady"]} \cup
    {[servers |-> TRUE, slack |-> s, email |-> e] : s \in ConnStates, e \in ConnStates}

\* How the promise of an async call settles.
Resolved(via) == [settled |-> "resolved", via |-> via]
Rejected == [settled |-> "rejected", via |-> "nobody"]

\* Mutant of TryCallTool: the exception of callTool is not caught.
CallToolUncaught(conn, serverId, rest) ==
    IF conn = "delivers" THEN Resolved(serverId) ELSE Rejected

\* Lines 187-196: callTool in its try block; a delivery returns, an
\* exception is caught and logged and the loop goes on (`rest`).
TryCallTool(conn, serverId, rest) ==
    IF conn = "delivers" THEN Resolved(serverId) ELSE rest

\* Lines 184-197: the loop over the servers, from the i-th on.
RECURSIVE NotifyFrom(_, _, _)
NotifyFrom(order, env, i) ==
    IF i > Len(order) THEN Resolved("nobody")
    ELSE IF env[order[i]] = "notReady" THEN NotifyFrom(order, env, i + 1)
    ELSE TryCallTool(env[order[i]], order[i], NotifyFrom(order, env, i + 1))

\* [...MCP_NOTIFY_CONFIG].reverse()
Reverse(seq) == [i \in 1..Len(seq) |-> seq[Len(seq) + 1 - i]]

notifyViaMcp(env, preferServerId) ==
    IF ~env.servers THEN Resolved("nobody")
    ELSE NotifyFrom(IF preferServerId = "email" THEN Reverse(MCP_NOTIFY_CONFIG)
                    ELSE MCP_NOTIFY_CONFIG,
                    env, 1)

\* What is recorded of a settled notifyViaMcp.
NotifyLog(env) ==
    IF notifyViaMcp(env, NoPrefer).via # "nobody" THEN "delivered"
    ELSE IF env.servers /\ \E c \in {"slack", "email"} : env[c] = "throws" THEN "failed"
    ELSE "no transport"

----------------------------------------------------------------------------
\* The caller of requestResource or returnResource when it is not handleChat
\* (a call from outside the agent).
NoChat == [op |-> "none"]

\* notifyViaMcp reaches this.mcp.callTool (lines 177 and 186): a server is
\* listed and the connection of a configured server is ready.
CallsTool(env) == env.servers /\ \E c \in {"slack", "email"} : env[c] # "notReady"

\* What the await of a notifyViaMcp waits for: the promise of callTool, or
\* nothing (notifyViaMcp has returned already and its promise is fulfilled).
NotifyAwaits == {"callTool", "microtask"}

\* The handlers suspended at the await of a promise that is fulfilled
\* already: they are resumed from the microtask queue, in the order in which
\* they were suspended (`seq`), before the event loop takes its next event
\* (the settling of an I/O promise, a scheduled callback, the passing of
\* time); only calls made in the same turn get in between.
Microtasks == {p \in pending : p.awaits = "microtask"}

\* p is the first of the microtask queue.
First(p) == p \in Microtasks /\ \A q \in Microtasks : p.seq <= q.seq

\* The place behind the handlers of `queue`.
Back(queue) ==
    IF queue = {} THEN 1
    ELSE 1 + (CHOOSE n \in {q.seq : q \in queue} : \A q \in queue : q.seq <= n)

\* The handler `record` suspended at an await of kind `awaits`, while the
\* microtask queue holds `queue`.
Suspended(record, awaits, queue) ==
    [record EXCEPT !.awaits = awaits,
                   !.seq = IF awaits = "microtask" THEN Back(queue) ELSE 0]

\* The awaited async method has returned `reply` to handleChat call `chat`
\* while the microtask queue holds `queue`: the records that join `pending`.
Resumed(chat, reply, queue) ==
    IF chat = NoChat THEN {}
    ELSE {Suspended([chat EXCEPT !.reply = reply], "microtask", queue)}

\* The awaited notifyViaMcp of handler p can settle now, in environment env:
\* after a callTool when the microtask queue is empty, without one when p
\* is the first of the microtask queue.
Settling(p, env) ==
    IF CallsTool(env) THEN p.awaits = "callTool" /\ Microtasks = {}
    ELSE First(p)

\* The budget after a call made by `chat`.
Spent(chat) ==
    IF chat = NoChat THEN budget ELSE [budget EXCEPT !.chats = @ - 1]

----------------------------------------------------------------------------
InitWith(bounds) ==
    /\ resources = seedResourcesIfEmpty(initialState).resources
    /\ assignments = initialState.assignments
    /\ waitlist = initialState.waitlist
    /\ utilizationLog = initialState.utilizationLog
    /\ notifications = initialState.notifications
    /\ clock = 0
    /\ nextId = 1
    /\ pending = {}
    /\ budget = bounds
    /\ enqueued = {}
    /\ promoted = {}
    /\ lastResult = NoResult
    /\ swept = {}
    /\ lastNotify = NoNotify
    /\ conversationByUser = initialState.conversationByUser

Init == InitWith([ids |-> MaxIds, pending |-> MaxPending, clock |-> MaxClock,
                  chats |-> 0, observe |-> FALSE])

\* Time passes.
Tick ==
    /\ Microtasks = {}
    /\ clock + 12 <= budget.clock
    /\ clock' = clock + 12
    /\ UNCHANGED <<resources, assignments, waitlist, utilizationLog, notifications,
                   nextId, pending, lastResult, budget, conversationByUser, swept, lastNotify, enqueued, promoted>>

----------------------------------------------------------------------------
\* requestResource (lines 221-272).

\* Mutant of HasCapacity: the comparison is off by one.
HasCapacityOffByOne(used, quantity) == used <= quantity

\* used < resource.quantity (line 233)
HasCapacity(used, quantity) == used < quantity

\* The position reported to a queued caller (lines 262-263), computed on
\* this.state.waitlist as it is after setState({ ...this.state, waitlist }).
waitlistPosition(wl, resourceId) == Len(ForResource(wl, resourceId)) + 1

\* The value requestResource returns: { ok, message, assignmentId?, waitlistPosition? }
\* (0: the field is absent).
RequestResult(ok, message, assignmentId, position) ==
    [op |-> "requestResource", ok |-> ok, message |-> message,
     assignmentId |-> assignmentId, waitlistPosition |-> position]

\* The messages of requestResource (lines 229, 248, 269), as the data they
\* print.
UnknownMessage(resourceId) == <<"Unknown resource", resourceId>>
AssignedToYouMessage(resource) == <<"Assigned to you", resource.name>>
NoAvailabilityMessage(position) == <<"No availability, position", position>>

\* Lines 227-230: the resource is not in the catalog.
RequestUnknownFrom(chat, resourceId, userId, dueReturnAt) ==
    /\ FindResource(resources, resourceId) = NoResource
    /\ lastResult' = RequestResult(FALSE, "Unknown resource", 0, 0)
    /\ pending' = pending \cup Resumed(chat, UnknownMessage(resourceId), Microtasks)
    /\ budget' = Spent(chat)
    /\ UNCHANGED <<resources, assignments, waitlist, utilizationLog, notifications,
                   clock, nextId, conversationByUser, swept, lastNotify, enqueued, promoted>>

RequestUnknown(resourceId, userId, dueReturnAt) ==
    RequestUnknownFrom(NoChat, resourceId, userId, dueReturnAt)

\* Lines 232-251: a unit is free and is assigned to the caller.
RequestGrantFrom(chat, resourceId, userId, dueReturnAt) ==
    LET resource == FindResource(resources, resourceId)
        used == activeAssignmentCount(assignments, resourceId)
        assignment == [id |-> nextId, resourceId |-> resourceId, userId |-> userId,
                       assignedAt |-> clock, dueReturnAt |-> dueReturnAt,
                       status |-> "active"]
    IN  /\ resource # NoResource
        /\ HasCapacity(used, resource.quantity)
        /\ nextId <= budget.ids
        /\ nextId' = nextId + 1
        /\ assignments' = Append(assignments, assignment)
        /\ lastResult' = RequestResult(TRUE, "Assigned", assignment.id, 0)
        /\ pending' = pending \cup Resumed(chat, AssignedToYouMessage(resource), Microtasks)
        /\ budget' = Spent(chat)
        /\ UNCHANGED <<resources, waitlist, utilizationLog, notifications, clock,
                       conversationByUser, swept, lastNotify, enqueued, promoted>>

RequestGrant(resourceId, userId, dueReturnAt) ==
    RequestGrantFrom(NoChat, resourceId, userId, dueReturnAt)

\* Mutant of Enqueue: the new entry is put in front of the others.
EnqueueFirst(wl, waitlistEntry) == <<waitlistEntry>> \o wl

\* [...this.state.waitlist, waitlistEntry] (line 259)
Enqueue(wl, waitlistEntry) == Append(wl, waitlistEntry)

\* Lines 253-265: no unit is free; the caller is put on the waitlist, the
\* position is computed and notifyViaMcp is called and awaited.
RequestQueueFrom(chat, resourceId, userId, dueReturnAt) ==
    LET resource == FindResource(resources, resourceId)
        used == activeAssignmentCount(assignments, resourceId)
        waitlistEntry == [id |-> nextId, resourceId |-> resourceId, userId |-> userId,
                          requestedAt |-> clock]
    IN  /\ resource # NoResource
        /\ ~HasCapacity(used, resource.quantity)
        /\ nextId <= budget.ids
        /\ Cardinality(pending) < budget.pending
        /\ nextId' = nextId + 1
        /\ waitlist' = Enqueue(waitlist, waitlistEntry)
        /\ \E awaits \in NotifyAwaits :
              pending' = pending \cup
                  {Suspended([op |-> "requestResource", resourceId |-> resourceId,
                              userId |-> userId, entryId |-> waitlistEntry.id,
                              position |-> waitlistPosition(waitlist', resourceId),
                              caller |-> chat, awaits |-> "notifyViaMcp", seq |-> 0,
                              wrote |-> TRUE, notified |-> TRUE],
                             awaits, Microtasks)}
        /\ enqueued' = enqueued \cup {waitlistEntry}
        /\ budget' = Spent(chat)
        /\ UNCHANGED <<resources, assignments, utilizationLog, notifications, clock,
                       lastResult, conversationByUser, swept, lastNotify, promoted>>

RequestQueue(resourceId, userId, dueReturnAt) ==
    RequestQueueFrom(NoChat, resourceId, userId, dueReturnAt)

RequestResourceFrom(chat, resourceId, userId, dueReturnAt) ==
    \/ RequestUnknownFrom(chat, resourceId, userId, dueReturnAt)
    \/ RequestGrantFrom(chat, resourceId, userId, dueReturnAt)
    \/ RequestQueueFrom(chat, resourceId, userId, dueReturnAt)

RequestResource(resourceId, userId, dueReturnAt) ==
    \/ RequestUnknown(resourceId, userId, dueReturnAt)
    \/ RequestGrant(resourceId, userId, dueReturnAt)
    \/ RequestQueue(resourceId, userId, dueReturnAt)

\* The awaited notifyViaMcp of handler p settles in environment env.
Observe(env) ==
    lastNotify' = IF budget.observe THEN NotifyLog(env) ELSE lastNotify

Settles(env) == notifyViaMcp(env, NoPrefer).settled = "resolved"

\* An exception thrown out of notifyViaMcp: the handler's promise is
\* rejected and the rest of the handler does not run.
Fault(op) == [op |-> op, ok |-> FALSE, fault |-> TRUE]

Rejects(p) ==
    /\ pending' = pending \ {p}
    /\ lastResult' = Fault(p.op)
    /\ UNCHANGED <<resources, assignments, waitlist, utilizationLog, notifications,
                   conversationByUser, clock, nextId, budget, swept, enqueued, promoted>>

\* Lines 265-271: notifyViaMcp has settled; the queued result is returned.
RequestSettle(p, env) ==
    /\ p \in pending
    /\ p.op = "requestResource"
    /\ Settling(p, env)
    /\ Observe(env)
    /\ IF Settles(env)
       THEN /\ pending' = (pending \ {p}) \cup
                              Resumed(p.caller, NoAvailabilityMessage(p.position),
                                      Microtasks \ {p})
            /\ lastResult' = RequestResult(FALSE, "No availability", 0, p.position)
            /\ UNCHANGED <<resources, assignments, waitlist, utilizationLog,
                           notifications, conversationByUser, clock, nextId, budget,
                           swept, enqueued, promoted>>
       ELSE Rejects(p)

RequestResume(p) == \E env \in NotifyEnvs : RequestSettle(p, env)

----------------------------------------------------------------------------
\* returnResource (lines 274-324).

\* Mutant of FindActiveAssignment: the status is not looked at.
FindAnyAssignment(assigns, resourceId, userId) ==
    LET hits == {i \in DOMAIN assigns :
                    /\ assigns[i].resourceId = resourceId
                    /\ assigns[i].userId = userId}
    IN  IF hits = {} THEN 0 ELSE CHOOSE i \in hits : \A j \in hits : i <= j

\* this.state.assignments.find(...) of lines 279-281, as an index (0: none).
FindActiveAssignment(assigns, resourceId, userId) ==
    LET hits == {i \in DOMAIN assigns :
                    /\ assigns[i].resourceId = resourceId
                    /\ assigns[i].userId = userId
                    /\ assigns[i].status = "active"}
    IN  IF hits = {} THEN 0 ELSE CHOOSE i \in hits : \A j \in hits : i <= j

\* Lines 286-288: every assignment with the found id becomes returned.
MarkReturned(assigns, id) ==
    [i \in DOMAIN assigns |->
        IF assigns[i].id = id THEN [assigns[i] EXCEPT !.status = "returned"]
        ELSE assigns[i]]

\* Mutant of Promote: the promoted entry stays on the waitlist.
PromoteKeepsEntry(state, next, resource, newId, now) ==
    LET newAssignment == [id |-> newId, resourceId |-> next.resourceId,
                          userId |-> next.userId, assignedAt |-> now,
                          dueReturnAt |-> NoDue, status |-> "active"]
    IN  [state EXCEPT
            !.assignments = Append(state.assignments, newAssignment),
            !.notifications = appendNotification(state.notifications, next.userId,
                                                 AssignedMessage(resource))]

\* Lines 302-311: nextState with the head of the waitlist promoted.
Promote(state, next, resource, newId, now) ==
    LET Keep(w) == w.id # next.id
        newAssignment == [id |-> newId, resourceId |-> next.resourceId,
                          userId |-> next.userId, assignedAt |-> now,
                          dueReturnAt |-> NoDue, status |-> "active"]
    IN  [state EXCEPT
            !.assignments = Append(state.assignments, newAssignment),
            !.waitlist = SelectSeq(state.waitlist, Keep),
            !.notifications = appendNotification(state.notifications, next.userId,
                                                 AssignedMessage(resource))]

\* this.setState(nextState)
SetState(nextState) ==
    /\ resources' = nextState.resources
    /\ assignments' = nextState.assignments
    /\ waitlist' = nextState.waitlist
    /\ utilizationLog' = nextState.utilizationLog
    /\ notifications' = nextState.notifications
    /\ conversationByUser' = nextState.conversationByUser

\* The value returnResource returns: { ok, message, autoAssigned? }.
ReturnResult(ok, autoAssigned) ==
    [op |-> "returnResource", ok |-> ok, autoAssigned |-> autoAssigned]

\* The messages of returnResource (lines 283, 319-321), as the data they
\* print.
NoAssignmentMessage(resourceId) == <<"No active assignment found", resourceId>>
ReturnedMessage(autoAssigned) ==
    IF autoAssigned = NoUser THEN <<"Returned successfully.">>
    ELSE <<"Returned. Next in line was auto-assigned.", autoAssigned>>

\* Lines 279-284: the caller holds no active assignment of the resource.
ReturnNothingFrom(chat, resourceId, userId) ==
    /\ FindActiveAssignment(assignments, resourceId, userId) = 0
    /\ lastResult' = ReturnResult(FALSE, NoUser)
    /\ pending' = pending \cup Resumed(chat, NoAssignmentMessage(resourceId), Microtasks)
    /\ budget' = Spent(chat)
    /\ UNCHANGED <<resources, assignments, waitlist, utilizationLog, notifications,
                   clock, nextId, conversationByUser, swept, lastNotify, enqueued, promoted>>

ReturnNothing(resourceId, userId) == ReturnNothingFrom(NoChat, resourceId, userId)

\* Lines 279-293 and 316-323: nobody waits for the resource; the assignment
\* is marked returned and the state is written in the same run.
ReturnReleaseFrom(chat, resourceId, userId) ==
    LET i == FindActiveAssignment(assignments, resourceId, userId)
        nextState == [State EXCEPT
                        !.assignments = MarkReturned(assignments, assignments[i].id)]
    IN  /\ i # 0
        /\ getNextWaitlistEntry(waitlist, resourceId) = NoEntry
        /\ SetState(nextState)
        /\ lastResult' = ReturnResult(TRUE, NoUser)
        /\ pending' = pending \cup Resumed(chat, ReturnedMessage(NoUser), Microtasks)
        /\ budget' = Spent(chat)
        /\ UNCHANGED <<clock, nextId, swept, lastNotify, enqueued, promoted>>

ReturnRelease(resourceId, userId) == ReturnReleaseFrom(NoChat, resourceId, userId)

\* Lines 279-313: somebody waits; nextState is built from the state read,
\* notifyViaMcp is called and awaited, and nothing has been written yet.
ReturnPromoteFrom(chat, resourceId, userId) ==
    LET i == FindActiveAssignment(assignments, resourceId, userId)
        released == [State EXCEPT
                        !.assignments = MarkReturned(assignments, assignments[i].id)]
        next == getNextWaitlistEntry(waitlist, resourceId)
        resource == FindResource(resources, resourceId)
    IN  /\ i # 0
        /\ next # NoEntry
        /\ nextId <= budget.ids
        /\ Cardinality(pending) < budget.pending
        /\ nextId' = nextId + 1
        /\ \E awaits \in NotifyAwaits :
              pending' = pending \cup
                  {Suspended([op |-> "returnResource", resourceId |-> resourceId,
                              userId |-> userId, assignmentId |-> assignments[i].id,
                              next |-> next, newId |-> nextId, read |-> State,
                              nextState |-> Promote(released, next, resource, nextId, clock),
                              caller |-> chat, awaits |-> "notifyViaMcp", seq |-> 0,
                              wrote |-> FALSE, notified |-> TRUE],
                             awaits, Microtasks)}
        /\ budget' = Spent(chat)
        /\ UNCHANGED <<resources, assignments, waitlist, utilizationLog, notifications,
                       clock, lastResult, conversationByUser, swept, lastNotify, enqueued, promoted>>

ReturnPromote(resourceId, userId) == ReturnPromoteFrom(NoChat, resourceId, userId)

ReturnResourceFrom(chat, resourceId, userId) ==
    \/ ReturnNothingFrom(chat, resourceId, userId)
    \/ ReturnReleaseFrom(chat, resourceId, userId)
    \/ ReturnPromoteFrom(chat, resourceId, userId)

ReturnResource(resourceId, userId) ==
    \/ ReturnNothing(resourceId, userId)
    \/ ReturnRelease(resourceId, userId)
    \/ ReturnPromote(resourceId, userId)

\* Lines 313-323: notifyViaMcp has settled; nextState is written.
ReturnSettle(p, env) ==
    /\ p \in pending
    /\ p.op = "returnResource"
    /\ Settling(p, env)
    /\ Observe(env)
    /\ IF Settles(env)
       THEN /\ pending' = (pending \ {p}) \cup
                              Resumed(p.caller, ReturnedMessage(p.next.userId),
                                      Microtasks \ {p})
            /\ SetState(p.nextState)
            /\ lastResult' = ReturnResult(TRUE, p.next.userId)
            /\ promoted' = promoted \cup {p.next.id}
            /\ UNCHANGED <<clock, nextId, budget, swept, enqueued>>
       ELSE Rejects(p)

ReturnCommit(p) == \E env \in NotifyEnvs : ReturnSettle(p, env)

----------------------------------------------------------------------------
\* Mutant of ClearNotifications: every queue is deleted.
ClearAllNotifications(userId) ==
    /\ notifications' = [u \in {} |-> <<>>]
    /\ UNCHANGED <<resources, assignments, waitlist, utilizationLog, clock, nextId,
                   pending, lastResult, budget, conversationByUser, swept, lastNotify, enqueued, promoted>>

\* clearNotifications (lines 376-381): delete notifications[userId].
ClearNotifications(userId) ==
    /\ notifications' = [u \in DOMAIN notifications \ {userId} |-> notifications[u]]
    /\ UNCHANGED <<resources, assignments, waitlist, utilizationLog, clock, nextId,
                   pending, lastResult, budget, conversationByUser, swept, lastNotify, enqueued, promoted>>

----------------------------------------------------------------------------
\* getUtilization (lines 344-374).

\* resourceId?: string when it is omitted; the empty string is falsy too
\* (!resourceId, line 362).
NoFilter == ""

\* dateFrom?, dateTo?: string, when omitted (undefined).  A calendar date
\* "YYYY-MM-DD" is modelled by its day number: strings of this form compare
\* (>=, <=) as their day numbers do.
NoDate == -1

\* dateFrom ?? todayDateString() (lines 358-359)
OrToday(date, now) == IF date = NoDate THEN todayDateString(now) ELSE date

\* Mutant of InRange: the upper bound is excluded.
InRangeExclusive(date, from, to) == date >= from /\ date < to

\* e.date >= from && e.date <= to (lines 363-364)
InRange(date, from, to) == date >= from /\ date <= to

RECURSIVE GCD(_, _)
GCD(a, b) == IF b = 0 THEN a ELSE GCD(b, a % b)

\* The number e.allocated / e.total (total > 0), as a fraction in lowest terms.
Quotient(allocated, total) ==
    LET g == GCD(allocated, total)
    IN  [num |-> allocated \div g, den |-> total \div g]

\* e.total > 0 ? e.allocated / e.total : 0 (line 371)
Utilization(e) ==
    IF e.total > 0 THEN Quotient(e.allocated, e.total) ELSE [num |-> 0, den |-> 1]

\* Lines 360-372: the filter and the map.
ByResource(log, resourceId, from, to) ==
    LET Keep(e) == /\ (resourceId = NoFilter \/ e.resourceId = resourceId)
                   /\ InRange(e.date, from, to)
        kept == SelectSeq(log, Keep)
    IN  [i \in DOMAIN kept |->
            [resourceId |-> kept[i].resourceId, date |-> kept[i].date,
             allocated |-> kept[i].allocated, total |-> kept[i].total,
             utilization |-> Utilization(kept[i])]]

GetUtilization(resourceId, dateFrom, dateTo) ==
    /\ lastResult' =
          [op |-> "getUtilization",
           byResource |-> ByResource(utilizationLog, resourceId,
                                     OrToday(dateFrom, clock), OrToday(dateTo, clock))]
    /\ UNCHANGED <<resources, assignments, waitlist, utilizationLog, notifications,
                   conversationByUser, clock, nextId, pending, budget, enqueued,
                   promoted, swept, lastNotify>>

----------------------------------------------------------------------------
\* listMyAssignments (lines 326-331) and listResources (lines 333-342).

listMyAssignments(assigns, userId) ==
    LET Mine(a) == a.userId = userId /\ a.status = "active"
    IN  SelectSeq(assigns, Mine)

\* type?: ResourceType, when it is omitted.
NoType == ""

\* Mutant of listResources: the returned assignments are counted too.
listResourcesAll(res, assigns, type) ==
    LET OfType(r) == type = NoType \/ r.type = type
        list == SelectSeq(res, OfType)
    IN  [i \in DOMAIN list |->
            [id |-> list[i].id, type |-> list[i].type, name |-> list[i].name,
             quantity |-> list[i].quantity,
             available |-> list[i].quantity - AllAssignmentCount(assigns, list[i].id)]]

listResources(res, assigns, type) ==
    LET OfType(r) == type = NoType \/ r.type = type
        list == SelectSeq(res, OfType)
    IN  [i \in DOMAIN list |->
            [id |-> list[i].id, type |-> list[i].type, name |-> list[i].name,
             quantity |-> list[i].quantity,
             available |-> list[i].quantity - activeAssignmentCount(assigns, list[i].id)]]

\* The call of listResources: the list is returned and nothing is written.
ListResources(type) ==
    /\ lastResult' = [op |-> "listResources", type |-> type,
                      list |-> listResources(resources, assignments, type)]
    /\ UNCHANGED <<resources, assignments, waitlist, utilizationLog, notifications,
                   conversationByUser, clock, nextId, pending, budget, enqueued,
                   promoted, swept, lastNotify>>

----------------------------------------------------------------------------
\* handleChat (lines 408-531).
\*
\* A message is modelled by the sequence of its words, in the case the
\* caller typed them, each word a sequence of characters: message.trim()
\* drops what surrounds the words and the patterns take any white space
\* between them (\s+).  The history keeps the message as it was typed
\* (`trimmed`), the patterns are applied to it in lower case.

\* array.slice(-n)
LastN(seq, n) == IF Len(seq) <= n THEN seq ELSE SubSeq(seq, Len(seq) - n + 1, Len(seq))

\* appendConversation (lines 109-122).
appendConversation(conv, userId, userContent, assistantContent) ==
    LET prev == IF userId \in DOMAIN conv THEN conv[userId] ELSE <<>>
        next == LastN(prev \o << [role |-> "user", content |-> userContent],
                                 [role |-> "assistant", content |-> assistantContent] >>,
                      CONVERSATION_CAP_PER_USER)
    IN  [u \in DOMAIN conv \cup {userId} |-> IF u = userId THEN next ELSE conv[u]]

\* A message is modelled by its words (the runs of characters that are not
\* white space, in their order) and a word by its characters, so that
\* message.trim() (line 410) and the \s+ of the patterns are this division
\* into words.  The characters are those of ASCII.

\* String.prototype.toLowerCase and toUpperCase, character by character: a
\* letter changes case, any other character stays.
LowerChar(c) ==
    CASE c = "A" -> "a"
      [] c = "B" -> "b" [] c = "C" -> "c" [] c = "D" -> "d" [] c = "E" -> "e"
      [] c = "F" -> "f" [] c = "G" -> "g" [] c = "H" -> "h" [] c = "I" -> "i"
      [] c = "J" -> "j" [] c = "K" -> "k" [] c = "L" -> "l" [] c = "M" -> "m"
      [] c = "N" -> "n" [] c = "O" -> "o" [] c = "P" -> "p" [] c = "Q" -> "q"
      [] c = "R" -> "r" [] c = "S" -> "s" [] c = "T" -> "t" [] c = "U" -> "u"
      [] c = "V" -> "v" [] c = "W" -> "w" [] c = "X" -> "x" [] c = "Y" -> "y"
      [] c = "Z" -> "z"
      [] OTHER -> c

UpperChar(c) ==
    CASE c = "a" -> "A"
      [] c = "b" -> "B" [] c = "c" -> "C" [] c = "d" -> "D" [] c = "e" -> "E"
      [] c = "f" -> "F" [] c = "g" -> "G" [] c = "h" -> "H" [] c = "i" -> "I"
      [] c = "j" -> "J" [] c = "k" -> "K" [] c = "l" -> "L" [] c = "m" -> "M"
      [] c = "n" -> "N" [] c = "o" -> "O" [] c = "p" -> "P" [] c = "q" -> "Q"
      [] c = "r" -> "R" [] c = "s" -> "S" [] c = "t" -> "T" [] c = "u" -> "U"
      [] c = "v" -> "V" [] c = "w" -> "W" [] c = "x" -> "X" [] c = "y" -> "Y"
      [] c = "z" -> "Z"
      [] OTHER -> c

\* trimmed.toLowerCase() (line 411)
toLowerCase(message) ==
    [i \in DOMAIN message |-> [j \in DOMAIN message[i] |-> LowerChar(message[i][j])]]

\* requestMatch[1].toUpperCase() (lines 416, 431)
toUpperCase(word) == [j \in DOMAIN word |-> UpperChar(word[j])]

\* The string of a word.
RECURSIVE Join(_)
Join(word) == IF word = <<>> THEN "" ELSE Head(word) \o Join(Tail(word))

\* A character of the class \w (in a text in lower case).
IsWordChar(c) ==
    c \in {"a", "b", "c", "d", "e", "f", "g", "h", "i", "j", "k", "l", "m",
           "n", "o", "p", "q", "r", "s", "t", "u", "v", "w", "x", "y", "z",
           "0", "1", "2", "3", "4", "5", "6", "7", "8", "9", "_"}

\* The words of the patterns of lines 414, 429, 444, 462 and 479.
WordRequest == <<"r", "e", "q", "u", "e", "s", "t">>
WordReturn == <<"r", "e", "t", "u", "r", "n">>
WordResource == <<"r", "e", "s", "o", "u", "r", "c", "e">>
WordAssignments == <<"a", "s", "s", "i", "g", "n", "m", "e", "n", "t", "s">>
WordWhat == <<"w", "h", "a", "t">>
WordDo == <<"d", "o">>
WordI == <<"i">>
WordHave == <<"h", "a", "v", "e">>
WordList == <<"l", "i", "s", "t">>
WordMine == <<"m", "i", "n", "e">>
WordResources == <<"r", "e", "s", "o", "u", "r", "c", "e", "s">>
WordUtilization == <<"u", "t", "i", "l", "i", "z", "a", "t", "i", "o", "n">>

\* The characters of s are in `word` from place i on.
At(word, s, i) ==
    /\ i >= 1
    /\ i + Len(s) - 1 <= Len(word)
    /\ SubSeq(word, i, i + Len(s) - 1) = s

\* \b before place i and after place j of `word`, where a character of \w
\* stands at i and at j.
BoundaryBefore(word, i) == i = 1 \/ ~IsWordChar(word[i - 1])
BoundaryAfter(word, j) == j = Len(word) \/ ~IsWordChar(word[j + 1])

\* No match of a pattern (null).
NoMatch == <<>>

\* text.match(/verb\s+(?:resource\s+)?(\S+)/): the group (\S+) of the
\* leftmost match, NoMatch when there is none.  The pattern is not anchored:
\* the verb is the end of a word, and a word follows.  The word "resource"
\* after it is skipped when a word follows it.
Match(words, verb) ==
    LET hits == {i \in 1..(Len(words) - 1) :
                    At(words[i], verb, Len(words[i]) - Len(verb) + 1)}
        i == CHOOSE i \in hits : \A j \in hits : i <= j
    IN  IF hits = {} THEN NoMatch
        ELSE IF words[i + 1] = WordResource /\ i + 2 <= Len(words) THEN words[i + 2]
        ELSE words[i + 1]

\* /\bw1\s+w2...\s+wk\b/.test(text) for the words w1..wk of `phrase`: w1
\* ends a word and begins at a \b, the words between are words of the
\* text, and wk begins a word and ends at a \b.  (The optional groups
\* (my\s+)? and (list\s+)? of lines 444 and 462 change nothing: after the
\* white space of the group the \b holds.)
Test(words, phrase) ==
    LET k == Len(phrase) IN
    \E i \in 1..(Len(words) - k + 1) :
        \E a \in 1..Len(words[i]) :
            /\ At(words[i], phrase[1], a)
            /\ BoundaryBefore(words[i], a)
            /\ IF k = 1 THEN BoundaryAfter(words[i], a + Len(phrase[1]) - 1)
               ELSE /\ a + Len(phrase[1]) - 1 = Len(words[i])
                    /\ \A j \in 2..(k - 1) : words[i + j - 1] = phrase[j]
                    /\ At(words[i + k - 1], phrase[k], 1)
                    /\ BoundaryAfter(words[i + k - 1], Len(phrase[k]))

\* The branch handleChat takes: the tests of lines 414, 429, 444, 462 and
\* 479 in this order, on the message in lower case, and the assistant of
\* lines 502-530 when none matches.
Route(message) ==
    LET trimmedLower == toLowerCase(message) IN
    IF Match(trimmedLower, WordRequest) # NoMatch THEN "request"
    ELSE IF Match(trimmedLower, WordReturn) # NoMatch THEN "return"
    ELSE IF \/ Test(trimmedLower, <<WordAssignments>>)
            \/ Test(trimmedLower, <<WordWhat, WordDo, WordI, WordHave>>)
            \/ Test(trimmedLower, <<WordList, WordMine>>) THEN "assignments"
    ELSE IF Test(trimmedLower, <<WordResources>>) THEN "resources"
    ELSE IF Test(trimmedLower, <<WordUtilization>>) THEN "utilization"
    ELSE "assistant"

\* requestMatch[1].toUpperCase(), returnMatch[1].toUpperCase() (lines 416, 431)
ResourceIdOf(message, verb) == Join(toUpperCase(Match(toLowerCase(message), verb)))

\* The messages sent: the commands of the README, in the case of the README
\* and in another, and messages in which the key words are not at the start
\* or are followed by punctuation.
ChatInputs ==
    {
      \* "request P1"
      << <<"r", "e", "q", "u", "e", "s", "t">>, <<"P", "1">> >>,
      \* "Request resource l1"
      << <<"R", "e", "q", "u", "e", "s", "t">>, <<"r", "e", "s", "o", "u", "r", "c", "e">>, <<"l", "1">> >>,
      \* "request x9"
      << <<"r", "e", "q", "u", "e", "s", "t">>, <<"x", "9">> >>,
      \* "return P1"
      << <<"r", "e", "t", "u", "r", "n">>, <<"P", "1">> >>,
      \* "what do i have to return today"
      << <<"w", "h", "a", "t">>, <<"d", "o">>, <<"i">>, <<"h", "a", "v", "e">>, <<"t", "o">>, <<"r", "e", "t", "u", "r", "n">>, <<"t", "o", "d", "a", "y">> >>,
      \* "What do I have"
      << <<"W", "h", "a", "t">>, <<"d", "o">>, <<"I">>, <<"h", "a", "v", "e">> >>,
      \* "my assignments?"
      << <<"m", "y">>, <<"a", "s", "s", "i", "g", "n", "m", "e", "n", "t", "s", "?">> >>,
      \* "list resources"
      << <<"l", "i", "s", "t">>, <<"r", "e", "s", "o", "u", "r", "c", "e", "s">> >>,
      \* "resources"
      << <<"r", "e", "s", "o", "u", "r", "c", "e", "s">> >>,
      \* "which resources are free"
      << <<"w", "h", "i", "c", "h">>, <<"r", "e", "s", "o", "u", "r", "c", "e", "s">>, <<"a", "r", "e">>, <<"f", "r", "e", "e">> >>,
      \* "utilization"
      << <<"u", "t", "i", "l", "i", "z", "a", "t", "i", "o", "n">> >>,
      \* "show utilization for P1"
      << <<"s", "h", "o", "w">>, <<"u", "t", "i", "l", "i", "z", "a", "t", "i", "o", "n">>, <<"f", "o", "r">>, <<"P", "1">> >>,
      \* "hello"
      << <<"h", "e", "l", "l", "o">> >>
    }

\* The replies of lines 446-449, 464-466 and 481-489, as the data they print.
formatAssignmentLine(a) ==
    <<a.resourceId, todayDateString(a.assignedAt),
      IF a.dueReturnAt # NoDue /\ a.dueReturnAt # "" THEN DateSlice(a.dueReturnAt)
      ELSE "">>

AssignmentsReply(assigns, userId) ==
    LET list == listMyAssignments(assigns, userId)
    IN  IF Len(list) = 0 THEN <<"You have no current assignments.">>
        ELSE <<"assignments", [i \in DOMAIN list |-> formatAssignmentLine(list[i])]>>

ResourcesReply(res, assigns) == <<"resources", listResources(res, assigns, NoType)>>

UtilizationReply(log, now) ==
    LET byResource == ByResource(log, NoFilter, todayDateString(now), todayDateString(now))
    IN  IF Len(byResource) = 0 THEN <<"No utilization data for this period.">>
        ELSE <<"utilization", byResource>>

\* What this.env.AI.run does (lines 512-525): it returns a text, returns
\* nothing usable, or throws.
AiOutcomes == {"text", "blank", "throws"}

AssistantReply(outcome) ==
    CASE outcome = "text" -> <<"generated reply">>
      [] outcome = "blank" -> <<"I couldn't generate a response.">>
      [] OTHER -> <<"Something went wrong with the assistant.">>

ChatResult(reply) == [op |-> "handleChat", reply |-> reply]

\* No reply yet.
NoReply == <<>>

\* A call of handleChat: its arguments, its number and the history it reads
\* at line 412, before anything else.
Chat(userId, message) ==
    [op |-> "handleChat", userId |-> userId, message |-> message,
     chat |-> budget.chats, conversationByUser |-> conversationByUser,
     awaits |-> "nothing", seq |-> 0, reply |-> NoReply,
     wrote |-> FALSE, notified |-> FALSE]

\* Lines 417-425, 432-440, 450-458, 467-475, 490-498 and 526-529:
\* setState({ ...this.state, conversationByUser: appendConversation(...) })
\* with `conv` the map read at line 412; handleChat returns the reply.
ChatWrite(conv, userId, message, reply) ==
    /\ conversationByUser' = appendConversation(conv, userId, message, reply)
    /\ lastResult' = ChatResult(reply)
    /\ UNCHANGED <<resources, assignments, waitlist, utilizationLog, notifications,
                   clock, nextId, enqueued, promoted, swept, lastNotify>>

\* Lines 414-416: the message asks for a resource; requestResource is called
\* with the id in upper case and runs to its return or to its await.
ChatRequest(userId, message) ==
    /\ budget.chats > 0
    /\ Cardinality(pending) < budget.pending
    /\ Route(message) = "request"
    /\ RequestResourceFrom(Chat(userId, message), ResourceIdOf(message, WordRequest),
                           userId, NoDue)

\* Lines 429-431: the message returns a resource; returnResource is called.
ChatReturn(userId, message) ==
    /\ budget.chats > 0
    /\ Cardinality(pending) < budget.pending
    /\ Route(message) = "return"
    /\ ReturnResourceFrom(Chat(userId, message), ResourceIdOf(message, WordReturn), userId)

\* Lines 444-445, 462-463 and 479-480: a message answered from the state.
\* The async method called runs to its return at once, on the state of this
\* moment, and handleChat awaits its promise.
ChatList(userId, message) ==
    /\ budget.chats > 0
    /\ Cardinality(pending) < budget.pending
    /\ Route(message) \in {"assignments", "resources", "utilization"}
    /\ budget' = Spent(Chat(userId, message))
    /\ pending' = pending \cup
          Resumed(Chat(userId, message),
                  CASE Route(message) = "assignments" -> AssignmentsReply(assignments, userId)
                    [] Route(message) = "resources" -> ResourcesReply(resources, assignments)
                    [] OTHER -> UtilizationReply(utilizationLog, clock),
                  Microtasks)
    /\ UNCHANGED <<resources, assignments, waitlist, utilizationLog, notifications,
                   conversationByUser, clock, nextId, lastResult, enqueued, promoted,
                   swept, lastNotify>>

\* Any other message (lines 502-513): this.env.AI.run is called and awaited.
ChatAsk(userId, message) ==
    /\ budget.chats > 0
    /\ Cardinality(pending) < budget.pending
    /\ Route(message) = "assistant"
    /\ budget' = Spent(Chat(userId, message))
    /\ pending' = pending \cup {[Chat(userId, message) EXCEPT !.awaits = "AI.run"]}
    /\ UNCHANGED <<resources, assignments, waitlist, utilizationLog, notifications,
                   conversationByUser, clock, nextId, lastResult, enqueued, promoted,
                   swept, lastNotify>>

HandleChat(userId, message) ==
    \/ ChatRequest(userId, message)
    \/ ChatReturn(userId, message)
    \/ ChatList(userId, message)
    \/ ChatAsk(userId, message)

\* The awaited method has returned: handleChat p goes on from the microtask
\* queue, the first of the calls waiting there, and writes the history.
ChatContinue(p) ==
    /\ p.op = "handleChat"
    /\ First(p)
    /\ pending' = pending \ {p}
    /\ ChatWrite(p.conversationByUser, p.userId, p.message, p.reply)
    /\ UNCHANGED budget

\* Lines 513-530: this.env.AI.run has settled; the history is written.
ChatSettle(p, outcome) ==
    /\ p \in pending
    /\ p.op = "handleChat"
    /\ p.awaits = "AI.run"
    /\ Microtasks = {}
    /\ pending' = pending \ {p}
    /\ ChatWrite(p.conversationByUser, p.userId, p.message, AssistantReply(outcome))
    /\ UNCHANGED budget

ChatResume(p) == \E outcome \in AiOutcomes : ChatSettle(p, outcome)

----------------------------------------------------------------------------
\* checkReturnReminders (lines 558-594), the callback of the daily schedule.

\* a > b and a < b on Date values (line 566): the operands are converted to
\* their time values, and a comparison with NaN is false.
DateAfter(a, b) == a # NaN /\ b # NaN /\ a > b
DateBefore(a, b) == a # NaN /\ b # NaN /\ a < b

\* Lines 564-566: the assignment gets a reminder.
NeedsReminder(a, now) ==
    /\ a.status = "active"
    /\ a.dueReturnAt # NoDue
    /\ a.dueReturnAt # ""
    /\ ~DateAfter(getTime(a.dueReturnAt), now + REMINDER_HOURS_AHEAD)
    /\ ~DateBefore(getTime(a.dueReturnAt), now)

\* The index of the first assignment from index i on that gets a reminder
\* (Len(list) + 1: none), the `continue`s of the loop of lines 563-572.
RECURSIVE NextReminder(_, _, _)
NextReminder(list, i, now) ==
    IF i > Len(list) THEN i
    ELSE IF NeedsReminder(list[i], now) THEN i
    ELSE NextReminder(list, i + 1, now)

\* Lines 568-570: the reminder for assignment a is appended to the local copy.
Remind(notifs, a, res) ==
    LET resource == FindResource(res, a.resourceId)
        name == IF resource = NoResource THEN a.resourceId ELSE resource.name
    IN  appendNotification(notifs, a.userId, ReminderMessage(name, a.dueReturnAt))

\* Mutant of LogUtilization: the returned assignments are counted too.
RECURSIVE LogUtilizationAll(_, _, _, _, _)
LogUtilizationAll(log, res, assigns, date, i) ==
    IF i > Len(res) THEN log
    ELSE LET r == res[i]
             alreadyLogged == \E k \in DOMAIN log :
                                 log[k].resourceId = r.id /\ log[k].date = date
             entry == [resourceId |-> r.id, date |-> date,
                       allocated |-> AllAssignmentCount(assigns, r.id),
                       total |-> r.quantity]
         IN  LogUtilizationAll(IF alreadyLogged THEN log ELSE Append(log, entry),
                               res, assigns, date, i + 1)

\* Lines 576-587: one entry per resource that has none for the date.
RECURSIVE LogUtilization(_, _, _, _, _)
LogUtilization(log, res, assigns, date, i) ==
    IF i > Len(res) THEN log
    ELSE LET r == res[i]
             alreadyLogged == \E k \in DOMAIN log :
                                 log[k].resourceId = r.id /\ log[k].date = date
             entry == [resourceId |-> r.id, date |-> date,
                       allocated |-> activeAssignmentCount(assigns, r.id),
                       total |-> r.quantity]
         IN  LogUtilization(IF alreadyLogged THEN log ELSE Append(log, entry),
                            res, assigns, date, i + 1)

\* Lines 574-593: the end of the sweep, with `notifs` the local copy:
\* setState({ ...this.state, notifications, utilizationLog }).
SweepWrite(notifs) ==
    /\ notifications' = notifs
    /\ utilizationLog' = LogUtilization(utilizationLog, resources, assignments,
                                        todayDateString(clock), 1)
    /\ swept' = swept \cup {todayDateString(clock)}
    /\ UNCHANGED <<resources, assignments, waitlist, conversationByUser, clock, nextId,
                   lastResult, budget, enqueued, promoted>>

\* No assignment gets a reminder: the sweep runs to its end without an await.
SweepAtOnce ==
    /\ NextReminder(assignments, 1, clock) > Len(assignments)
    /\ SweepWrite(notifications)
    /\ UNCHANGED <<pending, lastNotify>>

\* The sweep reaches its first reminder and awaits notifyViaMcp (line 571).
SweepStart ==
    LET i == NextReminder(assignments, 1, clock) IN
    /\ i <= Len(assignments)
    /\ Cardinality(pending) < budget.pending
    /\ \E awaits \in NotifyAwaits :
          pending' = pending \cup
              {Suspended([op |-> "checkReturnReminders", now |-> clock,
                          list |-> assignments, i |-> i, read |-> notifications,
                          notifications |-> Remind(notifications, assignments[i], resources),
                          awaits |-> "notifyViaMcp", seq |-> 0,
                          wrote |-> FALSE, notified |-> TRUE],
                         awaits, Microtasks)}
    /\ UNCHANGED <<resources, assignments, waitlist, utilizationLog, notifications,
                   clock, nextId, lastResult, budget, conversationByUser, swept, lastNotify, enqueued, promoted>>

\* The schedule runs one callback at a time.
CheckReturnReminders ==
    /\ Microtasks = {}
    /\ \A p \in pending : p.op # "checkReturnReminders"
    /\ (SweepAtOnce \/ SweepStart)

\* notifyViaMcp has settled and the loop goes on to the next reminder.
SweepNextSettle(p, env) ==
    LET i == NextReminder(p.list, p.i + 1, p.now) IN
    /\ p \in pending
    /\ p.op = "checkReturnReminders"
    /\ Settling(p, env)
    /\ i <= Len(p.list)
    /\ Observe(env)
    /\ IF Settles(env)
       THEN /\ \E awaits \in NotifyAwaits :
                  pending' = (pending \ {p}) \cup
                      {Suspended([p EXCEPT !.i = i,
                                           !.notifications =
                                               Remind(p.notifications, p.list[i], resources)],
                                 awaits, Microtasks \ {p})}
            /\ UNCHANGED <<resources, assignments, waitlist, utilizationLog,
                           notifications, conversationByUser, clock, nextId,
                           lastResult, budget, swept, enqueued, promoted>>
       ELSE Rejects(p)

SweepNext(p) == \E env \in NotifyEnvs : SweepNextSettle(p, env)

\* notifyViaMcp has settled, the loop is over and the sweep writes.
SweepCommitSettle(p, env) ==
    /\ p \in pending
    /\ p.op = "checkReturnReminders"
    /\ Settling(p, env)
    /\ NextReminder(p.list, p.i + 1, p.now) > Len(p.list)
    /\ Observe(env)
    /\ IF Settles(env)
       THEN /\ pending' = pending \ {p}
            /\ SweepWrite(p.notifications)
       ELSE Rejects(p)

SweepCommit(p) == \E env \in NotifyEnvs : SweepCommitSettle(p, env)

SweepResume(p) == SweepNext(p) \/ SweepCommit(p)

----------------------------------------------------------------------------
\* No user has MaxNotifs messages yet.
NotifsLeft == \A u \in DOMAIN notifications : Len(notifications[u]) < MaxNotifs

\* The arbitration core with overlapping handlers: requests without a due
\* date (so that no reminder is due and the sweep never suspends), at a
\* fixed time.
Next ==
    \/ \E r \in ResourceIdInputs, u \in Users : RequestResource(r, u, NoDue)
    \/ \E p \in pending : RequestResume(p)
    \/ \E r \in ResourceIdInputs, u \in Users : ReturnResource(r, u)
    \/ \E p \in pending : ReturnCommit(p)
    \/ \E u \in Users : ClearNotifications(u)
    \/ NotifsLeft /\ CheckReturnReminders

Spec == Init /\ [][Next]_vars

\* Longer runs on one resource: requests and returns of P1 alone, while
\* time passes.
InitP1 == InitWith([ids |-> MaxIdsP1, pending |-> MaxPending, clock |-> MaxClock,
                    chats |-> 0, observe |-> FALSE])

NextP1 ==
    \/ Tick
    \/ \E u \in Users : RequestGrant("P1", u, NoDue)
    \/ \E u \in Users : RequestQueue("P1", u, NoDue)
    \/ \E p \in pending : RequestResume(p)
    \/ \E u \in Users : ReturnResource("P1", u)
    \/ \E p \in pending : ReturnCommit(p)

SpecP1 == InitP1 /\ [][NextP1]_vars

\* The same runs under the scheduling of the event loop and the returns the
\* holders keep making: an awaited notifyViaMcp settles, so a suspended
\* handler is resumed, and a holder of P1 who can return it does so.
InitLive == InitWith([ids |-> MaxIdsLive, pending |-> MaxPending, clock |-> 0,
                      chats |-> 0, observe |-> FALSE])

NextLive ==
    \/ \E u \in Users : RequestGrant("P1", u, NoDue)
    \/ \E u \in Users : RequestQueue("P1", u, NoDue)
    \/ \E p \in pending : RequestResume(p)
    \/ \E u \in Users : ReturnResource("P1", u)
    \/ \E p \in pending : ReturnCommit(p)

HolderReturns ==
    \E u \in Users : ReturnRelease("P1", u) \/ ReturnPromote("P1", u)

SpecLive ==
    /\ InitLive
    /\ [][NextLive]_vars
    /\ WF_vars(\E p \in pending : RequestResume(p))
    /\ WF_vars(\E p \in pending : ReturnCommit(p))
    /\ SF_vars(HolderReturns)

\* The reminder sweep: alice takes units of E1 with a due date (in the past
\* or within the next day at some time of the run, more than a day ahead at
\* another) or with one that is not a date, alice takes P1 and bob queues
\* for it, alice returns, and the sweep runs, while time passes; every
\* settled notifyViaMcp is recorded.
DueInputsDue == {InvalidDue, "2026-01-01T06:00:00.000Z", "2026-01-02T12:00:00.000Z"}

InitDue == InitWith([ids |-> MaxIdsDue, pending |-> MaxPendingDue, clock |-> MaxClock,
                     chats |-> 0, observe |-> TRUE])

NextDue ==
    \/ Tick
    \/ \E d \in DueInputsDue : RequestGrant("E1", "alice", d)
    \/ RequestGrant("P1", "alice", NoDue)
    \/ RequestQueue("P1", "bob", NoDue)
    \/ \E p \in pending : RequestResume(p)
    \/ \E r \in {"P1", "E1"} : ReturnResource(r, "alice")
    \/ \E p \in pending : ReturnCommit(p)
    \/ NotifsLeft /\ CheckReturnReminders
    \/ \E p \in pending : SweepResume(p)

SpecDue == InitDue /\ [][NextDue]_vars

\* The notification queues: requests and returns of P1 and clearNotifications,
\* at a fixed time.
InitClear == InitWith([ids |-> MaxIdsClear, pending |-> MaxPending,
                       clock |-> MaxClock, chats |-> 0, observe |-> FALSE])

NextClear ==
    \/ \E u \in Users : RequestGrant("P1", u, NoDue)
    \/ \E u \in Users : RequestQueue("P1", u, NoDue)
    \/ \E p \in pending : RequestResume(p)
    \/ \E u \in Users : ReturnResource("P1", u)
    \/ \E p \in pending : ReturnCommit(p)
    \/ \E u \in Users : ClearNotifications(u)

SpecClear == InitClear /\ [][NextClear]_vars

\* listResources among overlapping requests and returns of P1 by alice and
\* bob and of E1 by alice, at a fixed time.
TypeInputs == {NoType, "equipment"}

InitList == InitWith([ids |-> MaxIdsList, pending |-> MaxPending, clock |-> 0,
                      chats |-> 0, observe |-> FALSE])

NextList ==
    \/ \E u \in Users : RequestGrant("P1", u, NoDue)
    \/ \E u \in Users : RequestQueue("P1", u, NoDue)
    \/ RequestGrant("E1", "alice", NoDue)
    \/ RequestQueue("E1", "alice", NoDue)
    \/ \E p \in pending : RequestResume(p)
    \/ \E u \in Users : ReturnResource("P1", u)
    \/ ReturnResource("E1", "alice")
    \/ \E p \in pending : ReturnCommit(p)
    \/ \E t \in TypeInputs : ListResources(t)

SpecList == InitList /\ [][NextList]_vars

\* clearNotifications and the sweep among requests and returns: alice takes
\* a unit of E1 that is due within the day, so that the sweep reminds her
\* and is suspended at its await; alice takes P1, bob queues for it and
\* alice returns; the queues are cleared; at a fixed time.
InitFrame == InitWith([ids |-> MaxIdsFrame, pending |-> MaxPendingFrame, clock |-> 0,
                       chats |-> 0, observe |-> FALSE])

NextFrame ==
    \/ RequestGrant("E1", "alice", "2026-01-02T01:00:00+05:00")
    \/ RequestGrant("P1", "alice", NoDue)
    \/ RequestQueue("P1", "bob", NoDue)
    \/ \E p \in pending : RequestResume(p)
    \/ \E r \in {"P1", "E1"} : ReturnResource(r, "alice")
    \/ \E p \in pending : ReturnCommit(p)
    \/ \E u \in Users : ClearNotifications(u)
    \/ NotifsLeft /\ CheckReturnReminders
    \/ \E p \in pending : SweepResume(p)

SpecFrame == InitFrame /\ [][NextFrame]_vars

\* getUtilization as a function of the log, the date and its arguments: the
\* log is drawn from the logs of at most MaxLogLen entries of type
\* UtilizationLogEntry with one entry per (resourceId, date) at most (a
\* total of 0 is the entry of a resource of quantity 0), on day 1.
UtilizationEntries ==
    {[resourceId |-> r, date |-> d, allocated |-> c[1], total |-> c[2]] :
        r \in {"P1", "E1"}, d \in 0..MaxLogDate, c \in {<<0, 0>>, <<1, 2>>, <<2, 2>>}}

UtilizationLogs ==
    {log \in UNION {[1..n -> UtilizationEntries] : n \in 0..MaxLogLen} :
        \A i, j \in DOMAIN log :
            (log[i].resourceId = log[j].resourceId /\ log[i].date = log[j].date) => i = j}

FilterInputs == {NoFilter, "P1", "X"}
DateInputs == {NoDate} \cup 0..MaxLogDate

InitUtil ==
    /\ resources = seedResourcesIfEmpty(initialState).resources
    /\ assignments = initialState.assignments
    /\ waitlist = initialState.waitlist
    /\ utilizationLog \in UtilizationLogs
    /\ notifications = initialState.notifications
    /\ conversationByUser = initialState.conversationByUser
    /\ clock = 24
    /\ nextId = 1
    /\ pending = {}
    /\ budget = [ids |-> 0, pending |-> 0, clock |-> 24, chats |-> 0, observe |-> FALSE]
    /\ enqueued = {}
    /\ promoted = {}
    /\ swept = {}
    /\ lastNotify = NoNotify
    /\ lastResult = NoResult

NextUtil ==
    \E r \in FilterInputs, f \in DateInputs, t \in DateInputs : GetUtilization(r, f, t)

SpecUtil == InitUtil /\ [][NextUtil]_vars

\* handleChat and the conversation history: alice sends every message of
\* ChatInputs, bob asks for P1, asks for the utilization and talks to the
\* assistant, in calls that may be made in the same turn.  The history of
\* alice is empty or is what earlier calls of handleChat have left, one
\* exchange short of the cap or at the cap (a "list resources" and then
\* "hello"s answered by the assistant).
Exchange(message, reply) ==
    << [role |-> "user", content |-> message],
       [role |-> "assistant", content |-> reply] >>

\* The messages "hello" and "list resources".
Hello == << <<"h", "e", "l", "l", "o">> >>
ListResourcesMessage == << <<"l", "i", "s", "t">>, <<"r", "e", "s", "o", "u", "r", "c", "e", "s">> >>

RECURSIVE Hellos(_)
Hellos(n) ==
    IF n = 0 THEN <<>> ELSE Exchange(Hello, AssistantReply("text")) \o Hellos(n - 1)

Transcript(n) ==
    Exchange(ListResourcesMessage, ResourcesReply(DEFAULT_RESOURCES, <<>>)) \o Hellos(n - 1)

ChatHistories ==
    {initialState.conversationByUser} \cup
    {[u \in {"alice"} |-> Transcript(n)] :
        n \in {CONVERSATION_CAP_PER_USER \div 2 - 1, CONVERSATION_CAP_PER_USER \div 2}}

InitChat ==
    /\ resources = seedResourcesIfEmpty(initialState).resources
    /\ assignments = initialState.assignments
    /\ waitlist = initialState.waitlist
    /\ utilizationLog = initialState.utilizationLog
    /\ notifications = initialState.notifications
    /\ conversationByUser \in ChatHistories
    /\ clock = 0
    /\ nextId = 1
    /\ pending = {}
    /\ budget = [ids |-> MaxIdsChat, pending |-> MaxPending, clock |-> 0,
                 chats |-> MaxChats, observe |-> FALSE]
    /\ enqueued = {}
    /\ promoted = {}
    /\ swept = {}
    /\ lastNotify = NoNotify
    /\ lastResult = NoResult

\* What bob sends while alice sends every message of ChatInputs.
ChatInputsChat ==
    { \* "REQUEST p1"
      << <<"R", "E", "Q", "U", "E", "S", "T">>, <<"p", "1">> >>,
      \* "utilization"
      << <<"u", "t", "i", "l", "i", "z", "a", "t", "i", "o", "n">> >>,
      Hello }

NextChat ==
    \/ \E m \in ChatInputs : HandleChat("alice", m)
    \/ \E m \in ChatInputsChat : HandleChat("bob", m)
    \/ \E p \in pending : ChatContinue(p)
    \/ \E p \in pending : ChatResume(p)
    \/ \E p \in pending : RequestResume(p)
    \/ \E p \in pending : ReturnCommit(p)

SpecChat == InitChat /\ [][NextChat]_vars

----------------------------------------------------------------------------
\* The vocabulary of the properties, defined on the state alone.

\* The indices of the active assignments of resource r.
ActiveOf(assigns, r) ==
    {i \in DOMAIN assigns : assigns[i].resourceId = r /\ assigns[i].status = "active"}

\* The indices of the waitlist entries of resource r.
QueueOf(wl, r) == {i \in DOMAIN wl : wl[i].resourceId = r}

\* The entry of r that was requested first (the earlier index on a tie).
Earliest(wl, r) ==
    LET i == CHOOSE i \in QueueOf(wl, r) :
                 \A j \in QueueOf(wl, r) :
                     \/ wl[i].requestedAt < wl[j].requestedAt
                     \/ wl[i].requestedAt = wl[j].requestedAt /\ i <= j
    IN  wl[i]

Catalog == {resources[i] : i \in DOMAIN resources}

----------------------------------------------------------------------------
\* C1. Capacity invariant: in every reachable state, whatever handlers have
\* run and overlapped, no resource has more active assignments than its
\* quantity.
CapacityInvariant ==
    \A r \in Catalog : Cardinality(ActiveOf(assignments, r.id)) <= r.quantity

\* C1: both units of E1 are held, somebody waits for E1 and a returnResource
\* is suspended at its await.
CapacityWitness ==
    /\ Cardinality(ActiveOf(assignments, "E1")) = 2
    /\ QueueOf(waitlist, "E1") # {}
    /\ \E p \in pending : p.op = "returnResource" /\ p.resourceId = "E1"

\* C4. No idle-with-queue: in every reachable state a resource that has a
\* waitlist entry has all its units assigned.
NoIdleWithQueue ==
    \A r \in Catalog :
        QueueOf(waitlist, r.id) # {} =>
            Cardinality(ActiveOf(assignments, r.id)) = r.quantity

\* C4: a returnResource has promoted the head of P1's waitlist and somebody
\* still waits for P1.
NoIdleWitness ==
    /\ lastResult.op = "returnResource"
    /\ lastResult.autoAssigned # NoUser
    /\ QueueOf(waitlist, "P1") # {}
    /\ \E i \in DOMAIN assignments :
          assignments[i].resourceId = "P1" /\ assignments[i].status = "returned"

\* The quantity of the catalog's resource r.
QuantityOf(r) == (CHOOSE c \in Catalog : c.id = r).quantity

\* The ids of the assignments of a ledger.
IdsOf(assigns) == {assigns[i].id : i \in DOMAIN assigns}

----------------------------------------------------------------------------
\* C2. All state mutations are serialized: while a handler is suspended
\* between its read of the state and its write, the state is the one it
\* read (no other handler's mutation is applied in between, so its write
\* overwrites nothing).
SerializedMutations ==
    \A p \in pending :
        /\ p.op = "returnResource" => p.read = State
        /\ p.op = "checkReturnReminders" => p.read = notifications

\* C3. FIFO fairness: whenever an entry of a resource has been promoted,
\* every entry enqueued before it for the same resource (ids are handed out
\* in enqueue order) has been promoted already.
FifoPromotion ==
    \A e2 \in enqueued :
        e2.id \in promoted =>
            \A e1 \in enqueued :
                (e1.resourceId = e2.resourceId /\ e1.id < e2.id) => e1.id \in promoted

\* C5. Release and reassignment are indivisible: requestResource grants a
\* unit of R only while nobody is queued for R, whatever returns of R are
\* suspended at that moment, and the write of a returnResource that found
\* somebody queued marks the caller's assignment returned and gives the unit
\* to the earliest-requested entry it read, in the same step.
NoGrantAheadOfQueue ==
    [][ /\ \A r \in ResourceIdInputs, u \in Users :
              RequestGrant(r, u, NoDue) => QueueOf(waitlist, r) = {}
        /\ \A p \in pending :
              ReturnCommit(p) =>
                  LET head == Earliest(p.read.waitlist, p.resourceId) IN
                  /\ \E i \in DOMAIN assignments' :
                        /\ assignments'[i].id = p.assignmentId
                        /\ assignments'[i].status = "returned"
                  /\ \E i \in DOMAIN assignments' :
                        /\ assignments'[i].id = p.newId
                        /\ assignments'[i].userId = head.userId
                        /\ assignments'[i].resourceId = p.resourceId
                        /\ assignments'[i].status = "active"
      ]_vars

\* C5: a returnResource of P1 is suspended at its await, and a request for
\* P1 made by another user meanwhile has been queued, not granted.
NoGrantAheadWitness ==
    \E p \in pending :
        /\ p.op = "returnResource"
        /\ p.resourceId = "P1"
        /\ \E i \in QueueOf(waitlist, "P1") :
              /\ waitlist[i].userId # p.userId
              /\ waitlist[i].id > p.newId

\* C6. The capacity check and the mutation of requestResource are one step:
\* a request for a catalog resource with f free units (f is never negative)
\* creates exactly one active assignment and no waitlist entry when f > 0,
\* and exactly one waitlist entry and no assignment when f = 0; so n
\* requests on k free units give k grants and n - k entries.
AtomicCheckAndGrant ==
    [][ \A r \in ResourceIdInputs, u \in Users :
          (RequestResource(r, u, NoDue) /\ \E c \in Catalog : c.id = r) =>
              LET held == Cardinality(ActiveOf(assignments, r))
                  free == QuantityOf(r) - held
              IN  /\ free >= 0
                  /\ free > 0 =>
                        /\ Cardinality(ActiveOf(assignments', r)) = held + 1
                        /\ Len(assignments') = Len(assignments) + 1
                        /\ waitlist' = waitlist
                  /\ free = 0 =>
                        /\ assignments' = assignments
                        /\ Len(waitlist') = Len(waitlist) + 1
                        /\ Cardinality(QueueOf(waitlist', r)) =
                              Cardinality(QueueOf(waitlist, r)) + 1
      ]_vars

\* C6: four requests were made for E1, which has two units: two are granted
\* and two are queued.
AtomicCheckWitness ==
    /\ nextId = 5
    /\ Len(assignments) = 2
    /\ Cardinality(ActiveOf(assignments, "E1")) = 2
    /\ Cardinality(QueueOf(waitlist, "E1")) = 2

\* C7. Assignment lifecycle: from one state to the next every assignment
\* stays in the ledger, and an assignment that is returned stays returned.
AssignmentLifecycle ==
    [][ \A i \in DOMAIN assignments :
          \E j \in DOMAIN assignments' :
              /\ assignments'[j].id = assignments[i].id
              /\ assignments[i].status = "returned" =>
                    assignments'[j].status = "returned"
      ]_vars

\* C8. The write of a returnResource(R, u) that found R's waitlist non-empty
\* leaves u's assignment returned, the earliest-requested entry of R gone
\* from the waitlist, a new active assignment of R for that entry's user,
\* one more message (the assignment message, last) in that user's queue than
\* the return read, and the result reports autoAssigned = that user.
ReturnPromotesHead ==
    [][ \A p \in pending :
          ReturnCommit(p) =>
              LET head == Earliest(p.read.waitlist, p.resourceId)
                  resource == CHOOSE c \in Catalog : c.id = p.resourceId
              IN  /\ \E i \in DOMAIN assignments' :
                        /\ assignments'[i].id = p.assignmentId
                        /\ assignments'[i].userId = p.userId
                        /\ assignments'[i].resourceId = p.resourceId
                        /\ assignments'[i].status = "returned"
                  /\ \A i \in DOMAIN waitlist' : waitlist'[i].id # head.id
                  /\ \E i \in DOMAIN assignments' :
                        /\ assignments'[i].id \notin IdsOf(p.read.assignments)
                        /\ assignments'[i].userId = head.userId
                        /\ assignments'[i].resourceId = p.resourceId
                        /\ assignments'[i].status = "active"
                  /\ head.userId \in DOMAIN notifications'
                  /\ notifications'[head.userId] =
                        Append(NotificationsOf(p.read.notifications, head.userId),
                               <<"is now assigned to you", resource.name>>)
                  /\ lastResult'.op = "returnResource"
                  /\ lastResult'.ok
                  /\ lastResult'.autoAssigned = head.userId
      ]_vars

\* C8: request(P1, alice) was granted, request(P1, bob) queued and
\* return(P1, alice) has returned: bob holds P1 and has been told so.
ReturnPromotesWitness ==
    /\ lastResult = [op |-> "returnResource", ok |-> TRUE, autoAssigned |-> "bob"]
    /\ nextId = 4
    /\ \E i \in DOMAIN assignments :
          /\ assignments[i].userId = "alice"
          /\ assignments[i].resourceId = "P1"
          /\ assignments[i].status = "returned"
    /\ \E i \in ActiveOf(assignments, "P1") : assignments[i].userId = "bob"
    /\ waitlist = <<>>
    /\ "bob" \in DOMAIN notifications
    /\ Len(notifications["bob"]) = 1

\* C9. The position requestResource computes for a caller it enqueues, and
\* returns as waitlistPosition, is the number of waitlist entries of that
\* resource, the new one included (1 for the first user queued).
QueuedPositionIsQueueLength ==
    [][ /\ \A r \in ResourceIdInputs, u \in Users :
              RequestQueue(r, u, NoDue) =>
                  \A p \in pending' \ pending :
                      p.position = Cardinality(QueueOf(waitlist', r))
        /\ \A p \in pending :
              RequestResume(p) => lastResult'.waitlistPosition = p.position
      ]_vars

\* C10. A handler that has called the notify collaborator has written its
\* state mutation before the call.
NotifyAfterWrite ==
    \A p \in pending : p.notified => p.wrote

----------------------------------------------------------------------------
\* C11. Notification delivery never changes the outcome: whatever the awaited
\* notifyViaMcp meets (no server listed, no ready connection, a delivery, an
\* exception of callTool on one server or on both), the handler that awaited
\* it goes on in the same way and never ends in a fault: requestResource
\* returns its queued result and leaves the state as it is, returnResource
\* writes the nextState it built and returns ok with the promoted user,
\* checkReturnReminders goes on to its next reminder or writes its
\* notifications and the utilization entries of the day.
NotifyOutcomeIgnored ==
    [][ \A p \in pending : p \notin pending' =>
          \/ /\ p.op = "requestResource"
             /\ lastResult' = RequestResult(FALSE, "No availability", 0, p.position)
             /\ State' = State
          \/ /\ p.op = "returnResource"
             /\ lastResult' = ReturnResult(TRUE, p.next.userId)
             /\ State' = p.nextState
          \/ /\ p.op = "checkReturnReminders"
             /\ NextReminder(p.list, p.i + 1, p.now) <= Len(p.list)
             /\ lastResult' = lastResult
             /\ State' = State
             /\ \E q \in pending' : /\ q.op = "checkReturnReminders"
                                    /\ q.i = NextReminder(p.list, p.i + 1, p.now)
          \/ /\ p.op = "checkReturnReminders"
             /\ NextReminder(p.list, p.i + 1, p.now) > Len(p.list)
             /\ lastResult' = lastResult
             /\ State' = [State EXCEPT
                             !.notifications = p.notifications,
                             !.utilizationLog =
                                 LogUtilization(utilizationLog, resources, assignments,
                                                todayDateString(clock), 1)]
      ]_vars

\* C11: callTool threw for the notification of a returnResource(P1, alice),
\* no server delivered it, and the return has promoted bob all the same (no
\* sweep has run, and no handler is suspended).
NotifyOutcomeWitness ==
    /\ lastNotify = "failed"
    /\ lastResult = ReturnResult(TRUE, "bob")
    /\ pending = {}
    /\ swept = {}
    /\ \E i \in ActiveOf(assignments, "P1") : assignments[i].userId = "bob"
    /\ "bob" \in DOMAIN notifications

----------------------------------------------------------------------------
\* C12. returnResource(R, u) when u has no active assignment of R (R in the
\* catalog or not) returns the failure result (ok = false, nobody promoted),
\* leaves resources, assignments, waitlist, utilizationLog and notifications
\* as they are and calls no collaborator.
ReturnWithoutAssignment ==
    [][ \A r \in ResourceIdInputs, u \in Users :
          ( /\ ReturnResource(r, u)
            /\ \A i \in ActiveOf(assignments, r) : assignments[i].userId # u ) =>
              /\ lastResult' = ReturnResult(FALSE, NoUser)
              /\ State' = State
              /\ pending' = pending
      ]_vars

\* C12: a returnResource has failed while alice holds P1, somebody waits for
\* it, and bob has returned a unit of E1 earlier (a returned assignment of
\* the caller is not an active one).
ReturnWithoutWitness ==
    /\ lastResult = ReturnResult(FALSE, NoUser)
    /\ \E i \in ActiveOf(assignments, "P1") : assignments[i].userId = "alice"
    /\ QueueOf(waitlist, "P1") # {}
    /\ \E i \in DOMAIN assignments :
          /\ assignments[i].resourceId = "E1"
          /\ assignments[i].userId = "bob"
          /\ assignments[i].status = "returned"
    /\ \A i \in ActiveOf(assignments, "E1") : assignments[i].userId # "bob"

----------------------------------------------------------------------------
\* C13. requestResource with a resourceId that is not in the catalog returns
\* the failure result (ok = false, unknown resource, no assignmentId and no
\* position), creates no assignment and no waitlist entry (no id is drawn),
\* calls no collaborator and leaves the state as it is.
UnknownResourceFails ==
    [][ \A r \in ResourceIdInputs, u \in Users :
          ( /\ RequestResource(r, u, NoDue)
            /\ \A c \in Catalog : c.id # r ) =>
              /\ lastResult' = RequestResult(FALSE, "Unknown resource", 0, 0)
              /\ State' = State
              /\ nextId' = nextId
              /\ pending' = pending
      ]_vars

\* C13: a request for a resource that is not in the catalog has failed
\* while the ledger and the waitlist hold entries, and none of them is
\* for a resource outside the catalog.
UnknownResourceWitness ==
    /\ lastResult = RequestResult(FALSE, "Unknown resource", 0, 0)
    /\ assignments # <<>>
    /\ waitlist # <<>>
    /\ \A i \in DOMAIN assignments : \E c \in Catalog : c.id = assignments[i].resourceId
    /\ \A i \in DOMAIN waitlist : \E c \in Catalog : c.id = waitlist[i].resourceId

----------------------------------------------------------------------------
\* The indices of the utilization entries of resource r for date d.
EntriesFor(log, r, d) ==
    {k \in DOMAIN log : log[k].resourceId = r /\ log[k].date = d}

\* C14. Idempotent daily snapshot: in every reachable state the utilization
\* log has at most one entry per (resourceId, date), and once
\* checkReturnReminders has written on a date the log has exactly one entry
\* of that date for every resource of the catalog, whatever other handlers
\* ran around it.
DailySnapshot ==
    /\ \A k1, k2 \in DOMAIN utilizationLog :
          ( /\ utilizationLog[k1].resourceId = utilizationLog[k2].resourceId
            /\ utilizationLog[k1].date = utilizationLog[k2].date ) => k1 = k2
    /\ \A d \in swept, r \in Catalog :
          Cardinality(EntriesFor(utilizationLog, r.id, d)) = 1

\* C15. Utilization entries are first-writer-wins: from one state to the
\* next every entry of the log stays in the log, with the same allocated
\* and total.
UtilizationFirstWriterWins ==
    [][ \A k \in DOMAIN utilizationLog :
          \E j \in DOMAIN utilizationLog' : utilizationLog'[j] = utilizationLog[k]
      ]_vars

\* s is a prefix of t.
IsPrefix(s, t) == Len(s) <= Len(t) /\ SubSeq(t, 1, Len(s)) = s

\* What is left of sequence t after its first n elements.
Beyond(t, n) == SubSeq(t, n + 1, Len(t))

\* C16. The notification queue of a user is append-only until that user's
\* clearNotifications: a step that is not clearNotifications(u) leaves u's
\* queue as it is or appends to it the messages the handler taking the step
\* created for u (the assignment message of a returnResource that promoted
\* u, the reminders of a checkReturnReminders for u), so that no message is
\* dropped or reordered and no cleared message comes back.
NotificationsAppendOnly ==
    [][ \A u \in Users :
          LET before == NotificationsOf(notifications, u)
              after == NotificationsOf(notifications', u)
          IN  \/ ClearNotifications(u)
              \/ after = before
              \/ \E p \in pending :
                    /\ p.op = "returnResource"
                    /\ ReturnCommit(p)
                    /\ p.next.userId = u
                    /\ IsPrefix(before, after)
                    /\ Len(after) = Len(before) + 1
              \/ \E p \in pending :
                    /\ p.op = "checkReturnReminders"
                    /\ SweepCommit(p)
                    /\ after = before \o Beyond(NotificationsOf(p.notifications, u),
                                                Len(NotificationsOf(p.read, u)))
      ]_vars

----------------------------------------------------------------------------
\* C17. No implicit dedup: a requestResource(R, u) by a user who holds an
\* active assignment of R is treated like any other request. When R is full
\* the ledger stays as it is and one entry for u is added to the waitlist
\* behind the entries that are there (last in the list and requested no
\* earlier than any of them); when R has a free unit the waitlist stays as
\* it is and one more active assignment of R for u is appended to the ledger.
NoImplicitDedup ==
    [][ \A r \in ResourceIdInputs, u \in Users :
          ( /\ RequestResource(r, u, NoDue)
            /\ \E i \in ActiveOf(assignments, r) : assignments[i].userId = u ) =>
              LET held == Cardinality(ActiveOf(assignments, r))
                  n == Len(waitlist)
                  m == Len(assignments)
              IN  /\ held >= QuantityOf(r) =>
                        /\ assignments' = assignments
                        /\ Len(waitlist') = n + 1
                        /\ SubSeq(waitlist', 1, n) = waitlist
                        /\ waitlist'[n + 1].userId = u
                        /\ waitlist'[n + 1].resourceId = r
                        /\ \A i \in 1..n :
                              waitlist[i].requestedAt <= waitlist'[n + 1].requestedAt
                  /\ held < QuantityOf(r) =>
                        /\ waitlist' = waitlist
                        /\ Len(assignments') = m + 1
                        /\ SubSeq(assignments', 1, m) = assignments
                        /\ assignments'[m + 1].userId = u
                        /\ assignments'[m + 1].resourceId = r
                        /\ assignments'[m + 1].status = "active"
      ]_vars

\* C17: alice was granted P1 (the first id), bob was queued for it (the
\* second) and alice, still holding P1, has requested it again and is queued
\* behind bob (the third).
NoImplicitDedupWitness ==
    /\ nextId = 4
    /\ Len(assignments) = 1
    /\ assignments[1].id = 1
    /\ assignments[1].userId = "alice"
    /\ assignments[1].resourceId = "P1"
    /\ assignments[1].status = "active"
    /\ Len(waitlist) = 2
    /\ waitlist[1].id = 2
    /\ waitlist[1].userId = "bob"
    /\ waitlist[2].id = 3
    /\ waitlist[2].userId = "alice"
    /\ waitlist[2].resourceId = "P1"

----------------------------------------------------------------------------
\* The assignment is active and has a due time t with now <= t <= now + 24h.
Eligible(a, now) ==
    /\ a.status = "active"
    /\ getTime(a.dueReturnAt) >= 0
    /\ now <= getTime(a.dueReturnAt)
    /\ getTime(a.dueReturnAt) <= now + REMINDER_HOURS_AHEAD

\* The queues `notifs` with one reminder more for every eligible assignment
\* of the list from index i on, in the order of the list.
RECURSIVE WithReminders(_, _, _, _)
WithReminders(notifs, list, now, i) ==
    IF i > Len(list) THEN notifs
    ELSE WithReminders(IF Eligible(list[i], now) THEN Remind(notifs, list[i], resources)
                       ELSE notifs,
                       list, now, i + 1)

\* C18. checkReturnReminders appends a reminder exactly for the assignments
\* that are active and have a dueReturnAt t with now <= t <= now + 24h: the
\* queues a sweep writes are the queues it read with one reminder more for
\* each such assignment of the ledger it read, and nothing for an assignment
\* that is returned, has no due date, is overdue or is due later.
RemindersInWindow ==
    [][ /\ SweepAtOnce =>
              notifications' = WithReminders(notifications, assignments, clock, 1)
        /\ \A p \in pending :
              (p.op = "checkReturnReminders" /\ SweepCommit(p)) =>
                  notifications' = WithReminders(p.read, p.list, p.now, 1)
      ]_vars

----------------------------------------------------------------------------
\* C19. getUtilization(resourceId, dateFrom, dateTo) returns exactly the log
\* entries whose resourceId is the filter (every resource when it is
\* omitted) and whose date d has dateFrom <= d <= dateTo, both ends included
\* and each of them today's date when omitted, once each and in the order
\* of the log; each record returned has utilization = allocated / total,
\* and utilization = 0 when total = 0.
UtilizationQuery ==
    [][ \A r \in FilterInputs, f \in DateInputs, t \in DateInputs :
          GetUtilization(r, f, t) =>
              LET today == clock \div 24
                  from == IF f = NoDate THEN today ELSE f
                  to == IF t = NoDate THEN today ELSE t
                  wanted == {k \in DOMAIN utilizationLog :
                                /\ r # NoFilter => utilizationLog[k].resourceId = r
                                /\ from <= utilizationLog[k].date
                                /\ utilizationLog[k].date <= to}
                  out == lastResult'.byResource
              IN  /\ Len(out) = Cardinality(wanted)
                  /\ \A k \in wanted :
                        LET i == Cardinality({j \in wanted : j <= k})
                            e == utilizationLog[k]
                        IN  /\ out[i].resourceId = e.resourceId
                            /\ out[i].date = e.date
                            /\ out[i].allocated = e.allocated
                            /\ out[i].total = e.total
                            /\ out[i].utilization.den > 0
                            /\ e.total > 0 =>
                                  out[i].utilization.num * e.total =
                                      e.allocated * out[i].utilization.den
                            /\ e.total = 0 => out[i].utilization.num = 0
      ]_vars

\* C19: on day 1, with a log of an entry of day 1 of total 0 and an entry
\* of P1 of another day, getUtilization has returned the first alone, with
\* utilization 0.
UtilizationQueryWitness ==
    /\ lastResult.op = "getUtilization"
    /\ Len(utilizationLog) = 2
    /\ utilizationLog[1].date = 1
    /\ utilizationLog[1].total = 0
    /\ utilizationLog[2].date # 1
    /\ utilizationLog[2].resourceId = "P1"
    /\ utilizationLog[2].total = 2
    /\ Len(lastResult.byResource) = 1
    /\ lastResult.byResource[1].date = 1
    /\ lastResult.byResource[1].total = 0
    /\ lastResult.byResource[1].utilization = [num |-> 0, den |-> 1]

----------------------------------------------------------------------------
\* The history of user u after the step is the last 20 entries of the
\* history of u before the step followed by the message and the reply.
HistoryAdvanced(u, message, reply) ==
    LET prev == IF u \in DOMAIN conversationByUser THEN conversationByUser[u] ELSE <<>>
        all == prev \o << [role |-> "user", content |-> message],
                          [role |-> "assistant", content |-> reply] >>
        n == IF Len(all) < CONVERSATION_CAP_PER_USER THEN Len(all)
             ELSE CONVERSATION_CAP_PER_USER
    IN  /\ u \in DOMAIN conversationByUser'
        /\ Len(conversationByUser'[u]) = n
        /\ \A i \in 1..n : conversationByUser'[u][i] = all[Len(all) - n + i]

\* C20. Conversation history is bounded: no history ever has more than 20
\* entries, and a handleChat call that returns leaves the caller's history
\* equal to the last 20 entries of the history before it followed by the
\* new user message and the assistant's reply (the oldest entries go first).
ConversationBounded ==
    [][ /\ \A u \in DOMAIN conversationByUser' :
              Len(conversationByUser'[u]) <= CONVERSATION_CAP_PER_USER
        /\ \A p \in pending :
              (p.op = "handleChat" /\ (ChatContinue(p) \/ ChatResume(p))) =>
                  HistoryAdvanced(p.userId, p.message, lastResult'.reply)
      ]_vars

----------------------------------------------------------------------------
\* The number of free units of catalog resource r in ledger `assigns`.
FreeUnits(assigns, r) == r.quantity - Cardinality(ActiveOf(assigns, r.id))

\* C21. listResources returns the resources of the catalog that have the
\* type asked for (all of them when the type is omitted), in the order of
\* the catalog, each with available = quantity minus the number of its
\* active assignments; and in every reachable state, whatever handlers have
\* overlapped, that number is at least 0 and at most the quantity.
AvailableWithinQuantity ==
    [][ /\ \A r \in Catalog :
              /\ 0 <= FreeUnits(assignments, r) /\ FreeUnits(assignments, r) <= r.quantity
              /\ 0 <= FreeUnits(assignments', r) /\ FreeUnits(assignments', r) <= r.quantity
        /\ \A t \in TypeInputs :
              ListResources(t) =>
                  LET listed == {i \in DOMAIN resources :
                                    t = NoType \/ resources[i].type = t}
                      out == lastResult'.list
                  IN  /\ Len(out) = Cardinality(listed)
                      /\ \A i \in listed :
                            LET k == Cardinality({j \in listed : j <= i}) IN
                            /\ out[k].id = resources[i].id
                            /\ out[k].quantity = resources[i].quantity
                            /\ out[k].available = FreeUnits(assignments, resources[i])
                            /\ 0 <= out[k].available
                            /\ out[k].available <= out[k].quantity
      ]_vars

\* C21: listResources("equipment") has reported one free unit of E1 while
\* one unit of E1 is held, another has been returned, P1 is held, somebody
\* waits for P1 and a returnResource of P1 is suspended at its await.
AvailableWitness ==
    /\ lastResult.op = "listResources"
    /\ lastResult.type = "equipment"
    /\ Len(lastResult.list) = 1
    /\ lastResult.list[1].id = "E1"
    /\ lastResult.list[1].available = 1
    /\ Cardinality(ActiveOf(assignments, "E1")) = 1
    /\ \E i \in DOMAIN assignments :
          assignments[i].resourceId = "E1" /\ assignments[i].status = "returned"
    /\ Cardinality(ActiveOf(assignments, "P1")) = 1
    /\ \E p \in pending : p.op = "returnResource" /\ p.resourceId = "P1"

----------------------------------------------------------------------------
\* C22. Every waitlist entry is eventually promoted: when a suspended handler
\* is always resumed and the holders of P1 keep returning it, every entry
\* that is enqueued on P1's waitlist is eventually promoted (taken off the
\* waitlist and turned into an active assignment of its user) as long as
\* generateId() has an id left for the promotion; no entry waits forever
\* and none disappears without being assigned.
EveryEntryPromoted ==
    \A id \in 1..MaxIdsLive :
        (\E e \in enqueued : e.id = id) ~>
            \/ id \in promoted
            \/ /\ nextId > budget.ids
               /\ \E i \in DOMAIN waitlist : waitlist[i].id = id

----------------------------------------------------------------------------
\* C23. Each waitlist entry is promoted at most once: the entry a
\* returnResource has selected for auto-assignment (getNextWaitlistEntry,
\* line 292) is selected by no other returnResource, neither by one that is
\* suspended at its await at the same time nor by one that has promoted it
\* already, so that k returns promote k distinct entries.
PromotedAtMostOnce ==
    \A p \in pending :
        p.op = "returnResource" =>
            /\ p.next.id \notin promoted
            /\ \A q \in pending :
                  (q.op = "returnResource" /\ q # p) => q.next.id # p.next.id

----------------------------------------------------------------------------
\* The ids of the assignments of ledger `before` that have another status
\* in ledger `after`, or are not in it any more.
StatusChanged(before, after) ==
    {before[i].id : i \in {i \in DOMAIN before :
        \A j \in DOMAIN after :
            after[j].id = before[i].id => after[j].status # before[i].status}}

\* C24. A successful returnResource(R, u) releases exactly one assignment:
\* its write changes the status of one assignment and no other, an active
\* assignment of R held by u, which becomes returned (also when u holds
\* several); the number of active assignments of R drops by one when nobody
\* waited for R and stays as it was when a waiting user is promoted; no
\* assignment of another resource or of another user changes status.
ReturnReleasesOne ==
    [][ /\ \A r \in ResourceIdInputs, u \in Users :
              ReturnRelease(r, u) =>
                  /\ \E i \in ActiveOf(assignments, r) :
                        /\ assignments[i].userId = u
                        /\ StatusChanged(assignments, assignments') = {assignments[i].id}
                        /\ assignments'[i].status = "returned"
                  /\ Len(assignments') = Len(assignments)
                  /\ Cardinality(ActiveOf(assignments', r)) =
                        Cardinality(ActiveOf(assignments, r)) - 1
        /\ \A p \in pending :
              (p.op = "returnResource" /\ ReturnCommit(p)) =>
                  /\ \E i \in ActiveOf(assignments, p.resourceId) :
                        /\ assignments[i].userId = p.userId
                        /\ assignments[i].id = p.assignmentId
                        /\ StatusChanged(assignments, assignments') = {p.assignmentId}
                        /\ assignments'[i].status = "returned"
                  /\ Cardinality(ActiveOf(assignments', p.resourceId)) =
                        Cardinality(ActiveOf(assignments, p.resourceId))
      ]_vars

----------------------------------------------------------------------------
\* C25. Every utilization entry written by checkReturnReminders is sound:
\* the write of a sweep (one that ran to its end at once or one that was
\* suspended at its awaits) keeps the entries of the log and appends entries
\* of today's date, each for a resource of the catalog, with total = the
\* quantity of the resource and allocated = the number of its active
\* assignments at the moment of the write, and 0 <= allocated <= total.
UtilizationEntriesSound ==
    [][ ( \/ SweepAtOnce
          \/ \E p \in pending :
                /\ p.op = "checkReturnReminders"
                /\ p \notin pending'
                /\ \A q \in pending' : q.op # "checkReturnReminders" ) =>
            /\ IsPrefix(utilizationLog, utilizationLog')
            /\ \A k \in (Len(utilizationLog) + 1)..Len(utilizationLog') :
                  LET e == utilizationLog'[k] IN
                  /\ e.date = clock \div 24
                  /\ \E r \in Catalog :
                        /\ r.id = e.resourceId
                        /\ e.total = r.quantity
                        /\ e.allocated = Cardinality(ActiveOf(assignments, r.id))
                  /\ 0 <= e.allocated
                  /\ e.allocated <= e.total
      ]_vars

\* C25: a sweep that reminded alice, and so was suspended at its await, has
\* written the entries of day 0 while alice held one unit of E1 and had
\* returned another: the log has E1 at 1 of 2 and L1, which nobody holds,
\* at 0 of 5.
UtilizationEntriesWitness ==
    /\ swept = {0}
    /\ lastNotify # NoNotify
    /\ "alice" \in DOMAIN notifications
    /\ Len(notifications["alice"]) = 1
    /\ notifications["alice"][1][1] = "Reminder: Please return"
    /\ pending = {}
    /\ \E i \in DOMAIN assignments :
          assignments[i].resourceId = "E1" /\ assignments[i].status = "returned"
    /\ \E k \in DOMAIN utilizationLog :
          utilizationLog[k] = [resourceId |-> "E1", date |-> 0, allocated |-> 1, total |-> 2]
    /\ \E k \in DOMAIN utilizationLog :
          utilizationLog[k] = [resourceId |-> "L1", date |-> 0, allocated |-> 0, total |-> 5]

----------------------------------------------------------------------------
\* C26. clearNotifications(u) and checkReturnReminders leave the ledger and
\* the waitlist untouched: clearNotifications(u) removes the notification
\* queue of u and changes nothing else (the queues of the other users,
\* assignments, waitlist, utilizationLog, resources); no step of
\* checkReturnReminders (its start, its resumptions after an await, its
\* write) changes assignments, waitlist or resources.
LedgerUntouched ==
    [][ /\ \A u \in Users :
              ClearNotifications(u) =>
                  /\ u \notin DOMAIN notifications'
                  /\ DOMAIN notifications' = DOMAIN notifications \ {u}
                  /\ \A v \in DOMAIN notifications' : notifications'[v] = notifications[v]
                  /\ assignments' = assignments
                  /\ waitlist' = waitlist
                  /\ utilizationLog' = utilizationLog
                  /\ resources' = resources
        /\ ( \/ CheckReturnReminders
             \/ \E p \in pending : SweepResume(p) ) =>
                  /\ assignments' = assignments
                  /\ waitlist' = waitlist
                  /\ resources' = resources
      ]_vars

\* C26: a sweep has reminded alice of the unit of E1 she holds and has
\* written the entries of day 0, and bob, who holds P1 by promotion, has
\* cleared his queue (the assignment message is gone) while alice's queue,
\* the ledger and the log are there.
LedgerUntouchedWitness ==
    /\ swept = {0}
    /\ pending = {}
    /\ "alice" \in DOMAIN notifications
    /\ notifications["alice"] =
          << <<"Reminder: Please return", "Projector", "2026-01-02">> >>
    /\ "bob" \notin DOMAIN notifications
    /\ promoted # {}
    /\ \E i \in ActiveOf(assignments, "P1") : assignments[i].userId = "bob"
    /\ \E i \in ActiveOf(assignments, "E1") : assignments[i].userId = "alice"
    /\ Len(utilizationLog) = Len(resources)

====
